---- MODULE Spec2Model ----
(***************************************************************************)
(* DPW-Agent: the Orchestrator's ReAct loop (OrchestratorAgent.chat) and   *)
(* the Planner's validation layer (PlannerAgent._validatePlan and          *)
(* PlannerAgent._validateReflection), as state machines.                   *)
(*                                                                         *)
(* Spec        one session served by one OrchestratorAgent: chat requests  *)
(*             run one after another; every A2A dispatch is an await point *)
(*             whose outcome (thrown, success=false, success=true with an  *)
(*             output) is chosen by the environment.                       *)
(* SpecPlanner the Planner's plan and reflect skills applied to bounded    *)
(*             model outputs and tool catalogs.                            *)
(* SpecExecutor ExecutorAgent.execute and getDroneState, step by step,     *)
(*             against a tool endpoint that answers as it likes.           *)
(* SpecA2A     AgentClient.submitTask against an AgentServer.              *)
(* SpecLive    Spec with the fairness the deadlines of the tasks give.     *)
(* SpecEvents  Spec with the first chat streamed: the StreamLogger's       *)
(*             events of that request are recorded.                        *)
(* SpecSessions Spec with clearSession called at any moment.               *)
(* SpecConnect the Executor's server: initialize at startup and on every   *)
(*             skill request, and the connection to the tool endpoint.     *)
(* SpecRag     the RAG agent's retrieve, smartRetrieve and retrieveMissing *)
(*             applied to bounded intents, filters and search answers.     *)
(* SpecTimed   one execute task of the Orchestrator against the Executor,  *)
(*             with the time each tool call takes, the tool timeouts and   *)
(*             the task's deadline.                                        *)
(* SpecStream  the web server's chat routes: two stream connections and    *)
(*             one plain chat interleaved on the shared StreamLogger.      *)
(*                                                                         *)
(* Abstractions: timestamps and durations are left out except in SpecTimed,*)
(* where a duration is a number of milliseconds; a confidence c is         *)
(* the integer 10*c; a string that is only compared for emptiness is one   *)
(* of a few literals; a location name is a sequence of characters so that  *)
(* trim() is computed; a similarity is the integer 10*s and a target name  *)
(* a sequence of pieces, written in Latin letters.                         *)
(***************************************************************************)
EXTENDS Integers, Sequences, FiniteSets, TLC

(* ------------------------------ bounds -------------------------------- *)

\* largest maxReactIterations a configuration sets explicitly
MaxConfiguredIterations == 1
\* largest maxHistoryLength a configuration sets explicitly
MaxConfiguredHistory == 1
\* chat requests served on the session
MaxChats == 2
\* steps in one model output driving the loop (plan steps, reflection nextSteps)
MaxSteps == 1
\* steps, and missingLocations entries, in one model output given to the
\* Planner's skills on their own
MaxRawSteps == 2
MaxRawLocations == 1
\* steps in one execute call given to the Executor on its own
MaxExecSteps == 2
\* tasks one AgentClient submits
MaxSubmitted == 2
\* child processes one Executor launches
MaxSpawned == 3
\* targets the intent decomposition of one query produces
MaxTargets == 2
\* steps of a plan whose execution is timed
MaxTimedSteps == 3
\* events one chat request logs between its start and its end
MaxLogged == 2

(* ------------------------- program constants -------------------------- *)

\* REACT_CONFIG.maxIterations
maxIterations == 3
\* REACT_CONFIG.minConfidenceToStop (0.8, in tenths)
minConfidenceToStop == 8
\* REACT_CONFIG.maxRagRetries
maxRagRetries == 2
\* the constructor's default for maxHistoryLength
defaultMaxHistoryLength == 10
\* the mission ceiling when MCP_MISSION_TIMEOUT_MS is not set, in ms
defaultMissionTimeoutMs == 1800000
\* the confidence _validateReflection substitutes for a non-number (0.2, in tenths)
defaultConfidence == 2
\* the timeout the SDK client gives a request that carries none, in ms
sdkDefaultTimeoutMs == 60000

(* ------------------------- values of the model ------------------------ *)

\* tool names the language model may write: two catalog tools, one it invents
RawToolNames == {"drone.take_off", "drone.move_to", "drone.teleport", ""}
\* a tool descriptor of the catalog; name "" stands for a missing name
ToolCatalogs ==
    { <<>>,
      <<[name |-> "drone.take_off"]>>,
      <<[name |-> "drone.take_off"], [name |-> "drone.move_to"]>>,
      <<[name |-> ""], [name |-> "drone.move_to"]>> }

\* sequences over S of length at most n
SeqUpTo(S, n) == UNION { [1..k -> S] : k \in 0..n }

\* a JSON value that may or may not be an array
JsonArrays(S, n) == { [isArray |-> TRUE, items |-> q] : q \in SeqUpTo(S, n) }
                    \cup { [isArray |-> FALSE, items |-> <<>>] }

\* a step as the model writes it: args is an object, or is missing (which
\* stands for every value that is no object)
RawSteps == [tool : RawToolNames, args : {"object", "missing"}]

\* characters of a location name
Chars == {" ", "3"}
\* an entry of missingLocations as the model writes it
RawLocations == [isString : {TRUE}, chars : SeqUpTo(Chars, 2)]
                \cup { [isString |-> FALSE, chars |-> <<>>] }

(* ------------------- PlannerAgent: validation layer ------------------- *)

\* the allowed set: names of the catalog, falsy names dropped
AllowedToolNames(availableTools) ==
    { availableTools[i].name : i \in DOMAIN availableTools } \ {""}

\* String.prototype.trim on a sequence of characters
RECURSIVE TrimLeft(_)
TrimLeft(s) == IF s # <<>> /\ Head(s) = " " THEN TrimLeft(Tail(s)) ELSE s
RECURSIVE TrimRight(_)
TrimRight(s) ==
    IF s # <<>> /\ s[Len(s)] = " " THEN TrimRight(SubSeq(s, 1, Len(s) - 1)) ELSE s
Trim(s) == TrimRight(TrimLeft(s))

\* a faulty variant of ValidateSteps: the allowed set is not consulted
RECURSIVE ValidateStepsAnyTool(_, _)
ValidateStepsAnyTool(steps, allowed) ==
    IF steps = <<>> THEN <<>>
    ELSE LET step == Head(steps)
             rest == ValidateStepsAnyTool(Tail(steps), allowed)
         IN IF step.tool = ""
            THEN rest
            ELSE <<[tool |-> step.tool,
                    args |-> IF step.args = "object" THEN "object" ELSE "emptyObject"]>>
                 \o rest
\* the loop over result.steps / result.nextSteps: a step is kept when its tool
\* is non-empty and allowed; args that are no object become {}
RECURSIVE ValidateSteps(_, _)
ValidateSteps(steps, allowed) ==
    IF steps = <<>> THEN <<>>
    ELSE LET step == Head(steps)
             rest == ValidateSteps(Tail(steps), allowed)
         IN IF step.tool = "" \/ step.tool \notin allowed
            THEN rest
            ELSE <<[tool |-> step.tool,
                    args |-> IF step.args = "object" THEN "object" ELSE "emptyObject"]>>
                 \o rest

\* result.missingLocations.filter(loc => loc && typeof loc === 'string').map(trim)
RECURSIVE NormalizeLocations(_)
NormalizeLocations(locs) ==
    IF locs = <<>> THEN <<>>
    ELSE LET loc == Head(locs)
             rest == NormalizeLocations(Tail(locs))
         IN IF loc.isString /\ loc.chars # <<>>
            THEN <<Trim(loc.chars)>> \o rest
            ELSE rest

\* _validatePlan throws when the allowed set is empty
ValidatePlanThrows(availableTools) == AllowedToolNames(availableTools) = {}

NoToolsError == "No availableTools provided; cannot generate a valid plan"

\* _validatePlan, when it does not throw
ValidatePlan(result, availableTools) ==
    [reasoning |-> result.reasoning,
     needsClarification |-> result.needsClarification,
     clarificationQuestion |-> result.clarificationQuestion,
     missingLocations |->
        IF result.missingLocations.isArray
        THEN NormalizeLocations(result.missingLocations.items) ELSE <<>>,
     steps |->
        IF result.steps.isArray
        THEN ValidateSteps(result.steps.items, AllowedToolNames(availableTools))
        ELSE <<>>]

\* a faulty variant of Clamp: Math.max(0, c) alone
ClampFromBelow(c) == IF c < 0 THEN 0 ELSE c
\* Math.min(1, Math.max(0, c)) in tenths
Clamp(c) == IF c < 0 THEN 0 ELSE IF c > 10 THEN 10 ELSE c

\* a faulty variant of RemedialSteps: the steps are validated whatever the
\* verdict
RemedialStepsWhateverGoal(result, allowed) ==
    IF result.nextSteps.isArray
    THEN ValidateSteps(result.nextSteps.items, allowed) ELSE <<>>
\* the nextSteps of a reflection: validated only when the goal is not achieved
RemedialSteps(result, allowed) ==
    IF ~result.goalAchieved /\ result.nextSteps.isArray
    THEN ValidateSteps(result.nextSteps.items, allowed) ELSE <<>>

\* _validateReflection
ValidateReflection(result, availableTools) ==
    [goalAchieved |-> result.goalAchieved,
     confidence |-> IF result.confidence.isNumber
                    THEN Clamp(result.confidence.value) ELSE defaultConfidence,
     nextSteps |-> RemedialSteps(result, AllowedToolNames(availableTools)),
     summary |-> result.summary]

\* a Task Result (createTaskResult)
TaskOk(output) == [success |-> TRUE, output |-> output]
TaskFailed(error) == [success |-> FALSE, error |-> error]

\* the plan skill as the A2A server runs it: plan() rethrows what
\* _validatePlan throws, and _handleTask turns it into a failed Task Result
PlanSkill(result, availableTools) ==
    IF ValidatePlanThrows(availableTools)
    THEN TaskFailed(NoToolsError)
    ELSE TaskOk(ValidatePlan(result, availableTools))

\* the reflect skill as the A2A server runs it
ReflectSkill(result, availableTools) ==
    TaskOk(ValidateReflection(result, availableTools))

(* ---------------- ExecutorAgent.execute, as the loop sees it ----------- *)

\* the for-loop of execute from step i on: ok[k] says whether _executeStep
\* of step k returns (TRUE) or throws (FALSE)
RECURSIVE ExecuteFrom(_, _, _, _)
ExecuteFrom(steps, ok, stopOnError, i) ==
    IF i > Len(steps) THEN <<>>
    ELSE LET r == [step |-> i, tool |-> steps[i].tool, success |-> ok[i]]
         IN IF ~ok[i] /\ stopOnError
            THEN <<r>>
            ELSE <<r>> \o ExecuteFrom(steps, ok, stopOnError, i + 1)

\* the object execute returns
Execute(steps, ok, stopOnError) ==
    LET results == ExecuteFrom(steps, ok, stopOnError, 1)
    IN [results |-> results,
        allSuccess |-> \A k \in DOMAIN results : results[k].success,
        completedSteps |-> Cardinality({k \in DOMAIN results : results[k].success}),
        totalSteps |-> Len(steps)]

(* ----------------------- what the environment does --------------------- *)

\* messages of the errors submitTask throws: fetch failure, deadline expiry
ThrownErrors == {"fetch failed", "The operation was aborted due to timeout"}
\* messages of the errors a skill handler throws ("" is an empty message)
HandlerErrors == {"", "handler error"}

Thrown(e) == [kind |-> "thrown", error |-> e]
Returned(r) == [kind |-> "returned", result |-> r]

\* outcomes of a task whose handler fails or returns one of outputs
Outcomes(outputs) ==
    { Thrown(e) : e \in ThrownErrors }
    \cup { Returned(TaskFailed("handler error")) }
    \cup { Returned(TaskOk(o)) : o \in outputs }

\* retrieval hits, identified by chunkText
SmartHits == { <<>>, <<[chunkText |-> "c1"]>> }
MissingHits == { <<>>, <<[chunkText |-> "c1"]>>, <<[chunkText |-> "c2"]>> }
\* snapshots drone.get_state returns
DroneStates == {"landed"}
Null == "null"

\* catalogs listTools returns to the loop
LoopCatalogs == { <<>>, <<[name |-> "drone.take_off"]>> }

\* model outputs the loop is driven with
LoopRawSteps == [tool : {"drone.take_off", "drone.teleport"}, args : {"object"}]
LoopRawPlans ==
    [reasoning : {"r"}, needsClarification : {TRUE},
     clarificationQuestion : {"", "q"},
     missingLocations :
        { [isArray |-> TRUE, items |-> <<>>],
          [isArray |-> TRUE, items |-> <<[isString |-> TRUE, chars |-> <<"3">>]>>] },
     steps : { [isArray |-> TRUE,
                items |-> <<[tool |-> "drone.take_off", args |-> "object"]>>] }]
    \cup
    [reasoning : {"r"}, needsClarification : {FALSE},
     clarificationQuestion : {""},
     missingLocations : { [isArray |-> TRUE, items |-> <<>>] },
     steps : JsonArrays(LoopRawSteps, MaxSteps)]
LoopRawReflections ==
    [goalAchieved : BOOLEAN,
     confidence : { [isNumber |-> TRUE, value |-> 5], [isNumber |-> TRUE, value |-> 15] },
     nextSteps : JsonArrays(LoopRawSteps, MaxSteps),
     summary : {"s"}]

(* --------------------------- OrchestratorAgent ------------------------- *)

VARIABLES
    config,              \* this.config
    history,             \* the session's history
    chats,               \* chat requests started so far
    pc,                  \* where chat is: the task it awaits, or a point between
    task,                \* the A2A task awaited
    dispatched,          \* per skill, the tasks dispatched in this request
    lastOutcome,         \* how the last awaited task ended
    failedStages,        \* the awaits of this request that threw or returned
                         \* success=false (kept for the properties only)
    ragHits, droneState, availableTools, ragRetryCount,
    allToolCalls, reflections, iteration, goalAchieved,
    currentPlan, lastExecutionResult, finalReflection,
    postExecDroneState,
    response,            \* what chat returned
    plannerCall,         \* PlannerAgent: the last skill call and its Task Result
    execPc,              \* ExecutorAgent: where the running operation is
    execution,           \* the operation: execute(steps, options) or getDroneState()
    stepIndex,           \* execute: i + 1, the step being run
    stepResults,         \* execute: results
    allSuccess,          \* execute: allSuccess
    toolCache,           \* McpClientWrapper.tools: names of the cached catalog
    endpointTools,       \* names of the tools the endpoint exposes
    refreshes,           \* catalog refreshes made for the current tool
    invocations,         \* requests made to the tool endpoint, in order
    execReturn,          \* what the operation returned or threw
    mcp,                 \* ExecutorAgent.initialized, McpClientWrapper.connected and
                         \* client, the connections to the tool endpoint, and the
                         \* skill requests under way
    sessionStore,        \* this.sessions: whether it holds the session object chat
                         \* works on, whether the session has been cleared with
                         \* no chat started since, and whether a chat was under
                         \* way when it was
    ragCall,             \* RagAgent: the last skill call and what it returned
    streams,             \* per chat request of the web server: where it is, and for a
                         \* stream connection its subscription, the requestId it
                         \* captured and the events it forwarded
    a2a,                 \* AgentClient.submitTask: the call under way and how it ended
    streamed,            \* the requestId of the chat whose events are followed
                         \* (the subscribers are attached for the run of one
                         \* chat); 0 when none is
    events,              \* StreamLogger: the events logged for that requestId, in order
    delivered            \* per subscriber, the events its listener was called with

locals == <<ragHits, droneState, availableTools, ragRetryCount, allToolCalls,
            reflections, iteration, goalAchieved, currentPlan,
            lastExecutionResult, finalReflection, postExecDroneState>>
executorVars == <<execPc, execution, stepIndex, stepResults, allSuccess,
                  toolCache, endpointTools, refreshes, invocations, execReturn,
                  mcp>>
loggerVars == <<streamed, events, delivered>>
vars == <<config, history, chats, pc, task, dispatched, lastOutcome,
          failedStages, locals, response, plannerCall, executorVars,
          a2a, loggerVars, sessionStore, ragCall, streams>>

Skills == {"smartRetrieve", "getDroneState", "listTools", "plan",
           "retrieveMissing", "execute", "reflect"}

NoTask == [skill |-> "none"]
NoPlan == [isNull |-> TRUE]
NoResult == [isNull |-> TRUE]
NoReflection == [isNull |-> TRUE]
NoResponse == [isNull |-> TRUE]
NoOutcome == [skill |-> "none", kind |-> "none", hits |-> 0]
NoCall == [skill |-> "none"]

\* the constructor: config.x || default, config.x !== false
OrchestratorConfig(c) ==
    [ragEnabled |-> c.ragEnabled,
     reactEnabled |-> c.reactEnabled,
     maxHistoryLength |->
        IF c.maxHistoryLength = 0 THEN defaultMaxHistoryLength ELSE c.maxHistoryLength,
     maxReactIterations |->
        IF c.maxReactIterations = 0 THEN maxIterations ELSE c.maxReactIterations]

\* configurations: 0 stands for a value left unset
Configs ==
    [ragEnabled : BOOLEAN, reactEnabled : BOOLEAN,
     maxHistoryLength : 1..MaxConfiguredHistory,
     maxReactIterations : 0..MaxConfiguredIterations]

\* no submitTask under way
NoSubmission == [pc |-> "idle", submitted |-> 0]
\* the subscribers of the StreamLogger: the listener of '*' (webServer.js,
\* cli.js) and the listener of REQUEST_START (cli.js)
Subscribers == {"*", "request:start"}

\* EventEmitter.emit as log calls it: the listeners of the event's type, then
\* the listeners of '*', are called with the event, synchronously
Listens(subscriber, type) == subscriber = "*" \/ subscriber = type

\* StreamLogger.log, called once for each of types in turn: the event is
\* stored in the request's context and emitted
Log(types) ==
    IF chats' = streamed
    THEN /\ events' = events \o types
         /\ delivered' = [s \in Subscribers |->
                             delivered[s] \o SelectSeq(types, LAMBDA e : Listens(s, e))]
    ELSE UNCHANGED <<events, delivered>>

\* requestStart: the event that opens the request
RequestStart == <<"request:start">>
\* a faulty variant of RequestEnd: the catch block returns without the event
RequestEndUnlessError(resp) ==
    IF "error" \in DOMAIN resp THEN <<>> ELSE <<"request:end">>
\* requestEnd(requestId, response), called before each return of chat
RequestEnd(resp) == <<"request:end">>

\* the events chat logs right before it submits a task of this skill
StartEvents(skill) ==
    CASE skill = "plan" -> <<"agent:call:start", "planner:start">>
      [] skill = "retrieveMissing" -> <<"rag:retry:start", "agent:call:start">>
      [] skill = "execute" -> <<"agent:call:start", "executor:start">>
      [] skill = "reflect" -> <<"reflect:start">>
      [] OTHER -> <<"agent:call:start">>

\* _callExecutorWithProgress: the step events replayed from a successful
\* task's results
RECURSIVE StepEvents(_)
StepEvents(results) ==
    IF results = <<>> THEN <<>>
    ELSE <<"executor:step:start", "executor:step:end">> \o StepEvents(Tail(results))

\* the events chat logs once the awaited task of this skill is back
EndEvents(skill, outcome) ==
    LET thrown == outcome.kind = "thrown"
        ok == outcome.kind = "returned" /\ outcome.result.success
    IN CASE skill = "smartRetrieve" ->
              IF thrown THEN <<"agent:call:error">>
              ELSE <<"rag:result", "agent:call:end">>
         [] skill \in {"getDroneState", "listTools"} ->
              IF thrown THEN <<"agent:call:error">>
              ELSE IF ok THEN <<"agent:call:end">> ELSE <<>>
         [] skill = "plan" ->
              IF thrown THEN <<>>
              ELSE IF ok THEN <<"planner:result", "agent:call:end">>
              ELSE <<"agent:call:error">>
         [] skill = "retrieveMissing" ->
              IF thrown THEN <<"agent:call:error">>
              ELSE <<"rag:retry:result", "agent:call:end">>
         [] skill = "execute" ->
              IF thrown THEN <<>>
              ELSE (IF ok THEN StepEvents(outcome.result.output.results) ELSE <<>>)
                   \o <<"executor:result", "agent:call:end">>
         [] skill = "reflect" ->
              IF ok THEN <<"reflect:result">> ELSE <<"agent:call:error">>
         [] OTHER -> <<>>

\* what one stretch of chat logs, in order: the events that close the task
\* that came back, those that open the task submitted next, and
\* REQUEST_END when chat returns
Logged(ended) ==
    Log(ended
        \o (IF task' # [skill |-> "none"] THEN StartEvents(task'.skill) ELSE <<>>)
        \o (IF pc' = "done" THEN RequestEnd(response') ELSE <<>>))

\* submitTask: one more task of this skill is in flight
Dispatch(t, at) ==
    /\ task' = t
    /\ dispatched' = [dispatched EXCEPT ![t.skill] = @ + 1]
    /\ pc' = at

\* a faulty variant of DroneStateOf: output is read without testing success
DroneStateOfUnchecked(outcome) ==
    IF outcome.kind = "returned" /\ outcome.result.success
    THEN outcome.result.output
    ELSE "undefined"
\* _getDroneStateSafe, from the await on: the state, or null when the task
\* failed or the dispatch threw
DroneStateOf(outcome) ==
    IF outcome.kind = "returned" /\ outcome.result.success
    THEN outcome.result.output
    ELSE Null

\* what the history keeps of an answer: which of the three answers it is
\* (the text itself is left out of the model)
UserTurn == [role |-> "user", content |-> "message"]
AssistantTurn(answer) == [role |-> "assistant", content |-> answer.kind]

\* a faulty variant of TrimHistory: maxHistoryLength entries are kept, not
\* maxHistoryLength exchanges
TrimHistoryToEntries(h) ==
    IF Len(h) > config.maxHistoryLength * 2
    THEN SubSeq(h, Len(h) - config.maxHistoryLength + 1, Len(h))
    ELSE h
\* _trimHistory: slice(-2 * maxHistoryLength) when longer than that
TrimHistory(h) ==
    IF Len(h) > config.maxHistoryLength * 2
    THEN SubSeq(h, Len(h) - config.maxHistoryLength * 2 + 1, Len(h))
    ELSE h

\* getSessionHistory: the history of the session the map holds, or []
GetSessionHistory == IF sessionStore.attached THEN history ELSE <<>>

\* _getOrCreateSession: the session of the map, or a new one put there, whose
\* history chat works on from here
GetOrCreateSession == IF sessionStore.attached THEN history ELSE <<>>

\* a faulty variant of ClearedSession: the session is emptied where it is
ClearedSessionInPlace == [attached |-> sessionStore.attached, history |-> <<>>]
\* clearSession: the session is deleted from the map; an object a running
\* chat holds is no longer the map's
ClearedSession == [attached |-> FALSE, history |-> history]

\* the catch block of chat: the error answer, pushed without trimming
Catch(message) ==
    LET answer == [kind |-> "error", text |-> <<"apology", message>>]
    IN /\ history' = Append(history, AssistantTurn(answer))
       /\ response' = [sessionId |-> "s", requestId |-> chats,
                       answer |-> answer, error |-> message]
       /\ task' = NoTask
       /\ pc' = "done"
       /\ UNCHANGED dispatched

\* the clarification return of phase 3, pushed without trimming
ReturnClarification(plan, retries) ==
    LET answer == [kind |-> "clarification",
                   text |-> IF plan.clarificationQuestion # ""
                            THEN <<plan.clarificationQuestion>>
                            ELSE <<"please provide more information">>]
    IN /\ history' = Append(history, AssistantTurn(answer))
       /\ response' = [sessionId |-> "s", requestId |-> chats,
                       answer |-> answer, plan |-> NoPlan,
                       toolCalls |-> allToolCalls, ragHits |-> ragHits,
                       needsClarification |-> TRUE,
                       missingLocations |-> plan.missingLocations,
                       ragRetries |-> retries, reactIterations |-> iteration]
       /\ task' = NoTask
       /\ pc' = "done"
       /\ UNCHANGED dispatched

\* the merge of phase 3: a retry hit is pushed unless its chunkText is there
RECURSIVE MergeHits(_, _)
MergeHits(hits, retryHits) ==
    IF retryHits = <<>> THEN hits
    ELSE LET hit == Head(retryHits)
         IN IF \E i \in DOMAIN hits : hits[i].chunkText = hit.chunkText
            THEN MergeHits(hits, Tail(retryHits))
            ELSE MergeHits(Append(hits, hit), Tail(retryHits))

\* a faulty variant of ExecutionPart: the branch for a plan without steps is missing
ExecutionPartOfResultOnly(plan, executionResult) ==
    IF executionResult # NoResult /\ executionResult.success
    THEN IF executionResult.output.allSuccess
         THEN <<"executed all steps">>
         ELSE <<"executed some steps">>
              \o (IF \E k \in DOMAIN executionResult.output.results :
                        ~executionResult.output.results[k].success
                  THEN <<"a step failed">> ELSE <<>>)
    ELSE <<>>
\* _generateAnswerWithReflection, lines 563-577: what the answer says of the
\* execution
ExecutionPart(plan, executionResult) ==
    IF executionResult # NoResult /\ executionResult.success
    THEN IF executionResult.output.allSuccess
         THEN <<"executed all steps">>
         ELSE <<"executed some steps">>
              \o (IF \E k \in DOMAIN executionResult.output.results :
                        ~executionResult.output.results[k].success
                  THEN <<"a step failed">> ELSE <<>>)
    ELSE IF plan = NoPlan \/ plan.steps = <<>>
         THEN <<"nothing to execute">> ELSE <<>>

\* _generateAnswerWithReflection: the parts of the answer, in order
GenerateAnswerWithReflection(plan, executionResult, reflection, iterations) ==
    LET reasoning == IF plan # NoPlan /\ plan.reasoning # ""
                     THEN <<"reasoning">> ELSE <<>>
        summary == IF reflection # NoReflection /\ reflection.summary # ""
                   THEN <<"summary">> ELSE <<>>
        note == IF iterations > 1 THEN <<"rounds note">> ELSE <<>>
        parts == reasoning \o ExecutionPart(plan, executionResult) \o summary \o note
    IN [kind |-> "result", text |-> IF parts # <<>> THEN parts ELSE <<"task handled">>]

\* the skill requests the Executor's server is given at the same time
ExecRequests == {1, 2}
\* a new McpClientWrapper and ExecutorAgent: not connected, not initialized,
\* no child process, the server not yet listening
NoConnection ==
    [phase |-> "starting", initialized |-> FALSE, connected |-> FALSE,
     client |-> 0, spawned |-> 0, established |-> {},
     req |-> [r \in ExecRequests |-> [pc |-> "idle", client |-> 0]]]
NoExecution == [kind |-> "none"]
NoReturn == [kind |-> "none"]

\* a new ExecutorAgent: nothing running, the catalog cache as loaded on connect
InitExecutor(cache, endpoint) ==
    /\ execPc = "idle"
    /\ execution = NoExecution
    /\ stepIndex = 0
    /\ stepResults = <<>>
    /\ allSuccess = TRUE
    /\ toolCache = cache
    /\ endpointTools = endpoint
    /\ refreshes = 0
    /\ invocations = <<>>
    /\ execReturn = NoReturn
    /\ mcp = NoConnection

\* ---------------------------------------------------------------------------
\* Web server: chat requests on the shared StreamLogger.
\* Requests 1 and 2 arrive on POST /api/chat/stream, request 3 on POST
\* /api/chat; uuidv4() gives each chat its own requestId, here the request's
\* number.  NoRequestId stands for capturedRequestId = null.
\* ---------------------------------------------------------------------------
Requests == {1, 2, 3}

Streaming == {1, 2}

NoRequestId == 0

NoStreams ==
    [r \in Requests |->
        [pc |-> "idle", subscribed |-> FALSE, capturedRequestId |-> NoRequestId,
         logged |-> 0, forwarded |-> <<>>]]

\* a new OrchestratorAgent with no session yet, no chat running
InitOrchestrator ==
    /\ sessionStore = [attached |-> FALSE, cleared |-> FALSE, midChat |-> FALSE]
    /\ ragCall = [skill |-> "none"]
    /\ streams = NoStreams
    /\ a2a = NoSubmission
    /\ events = <<>>
    /\ delivered = [s \in Subscribers |-> <<>>]
    /\ history = <<>>
    /\ chats = 0
    /\ pc = "idle"
    /\ task = NoTask
    /\ dispatched = [s \in Skills |-> 0]
    /\ lastOutcome = NoOutcome
    /\ failedStages = {}
    /\ ragHits = <<>>
    /\ droneState = Null
    /\ availableTools = <<>>
    /\ ragRetryCount = 0
    /\ allToolCalls = <<>>
    /\ reflections = <<>>
    /\ iteration = 0
    /\ goalAchieved = FALSE
    /\ currentPlan = NoPlan
    /\ lastExecutionResult = NoResult
    /\ finalReflection = NoReflection
    /\ postExecDroneState = Null
    /\ response = NoResponse

Init ==
    /\ config \in { OrchestratorConfig(c) : c \in Configs }
    /\ InitOrchestrator
    /\ plannerCall = NoCall
    /\ InitExecutor({}, {})
    /\ streamed = 0

\* the same, the first chat being a streamed one
EventsInit ==
    /\ config \in { OrchestratorConfig(c) : c \in Configs }
    /\ InitOrchestrator
    /\ plannerCall = NoCall
    /\ InitExecutor({}, {})
    /\ streamed = 1

\* chat, lines 99-123 and 145: the user turn is pushed, the locals start
\* afresh, and the first task goes out (smartRetrieve, or getDroneState when
\* RAG is disabled)
Chat ==
    /\ UNCHANGED <<executorVars, a2a, streamed, ragCall, streams>>
    /\ pc \in {"idle", "done"}
    /\ chats < MaxChats
    /\ chats' = chats + 1
    /\ sessionStore' = [attached |-> TRUE, cleared |-> FALSE, midChat |-> FALSE]
    /\ history' = Append(GetOrCreateSession, UserTurn)
    /\ response' = NoResponse
    /\ lastOutcome' = NoOutcome
    /\ failedStages' = {}
    /\ ragHits' = <<>>
    /\ droneState' = Null
    /\ availableTools' = <<>>
    /\ ragRetryCount' = 0
    /\ allToolCalls' = <<>>
    /\ reflections' = <<>>
    /\ iteration' = 0
    /\ goalAchieved' = FALSE
    /\ currentPlan' = NoPlan
    /\ lastExecutionResult' = NoResult
    /\ finalReflection' = NoReflection
    /\ postExecDroneState' = Null
    /\ task' = IF config.ragEnabled
               THEN [skill |-> "smartRetrieve"] ELSE [skill |-> "getDroneState"]
    /\ pc' = IF config.ragEnabled THEN "smartRetrieve" ELSE "prepState"
    /\ dispatched' = [s \in Skills |-> IF s = task'.skill THEN 1 ELSE 0]
    /\ UNCHANGED <<plannerCall, config>>
    /\ events' = IF chats' = streamed
                  THEN RequestStart \o StartEvents(task'.skill) ELSE <<>>
    /\ delivered' = [s \in Subscribers |->
                        SelectSeq(events', LAMBDA e : Listens(s, e))]

\* whether the awaited task returned success=true
Succeeded(outcome) == outcome.kind = "returned" /\ outcome.result.success

\* the hits of a retrieval: result.output?.hits || []
HitsOf(outcome) == IF Succeeded(outcome) THEN outcome.result.output.hits ELSE <<>>

\* the record of an await's end: the skill, how it ended, the hits it returned
Outcome(skill, outcome) ==
    [skill |-> skill,
     kind |-> IF outcome.kind = "thrown" THEN "thrown"
              ELSE IF outcome.result.success THEN "ok" ELSE "failed",
     hits |-> IF skill \in {"smartRetrieve", "retrieveMissing"}
              THEN Len(HitsOf(outcome)) ELSE 0]

\* the await at pc has ended with outcome
Ended(skill, outcome) ==
    /\ lastOutcome' = Outcome(skill, outcome)
    /\ failedStages' = IF Succeeded(outcome) THEN failedStages
                       ELSE failedStages \cup {pc}

\* lines 123-145: smartRetrieve is back (or threw); getDroneState goes out
CallRagSmartReturn(outcome) ==
    /\ UNCHANGED <<executorVars, a2a, streamed, ragCall, streams, sessionStore>>
    /\ pc = "smartRetrieve"
    /\ Ended("smartRetrieve", outcome)
    /\ ragHits' = HitsOf(outcome)
    /\ Dispatch([skill |-> "getDroneState"], "prepState")
    /\ UNCHANGED <<plannerCall, config, history, chats, response, droneState, availableTools,
                   ragRetryCount, allToolCalls, reflections, iteration,
                   goalAchieved, currentPlan, lastExecutionResult,
                   finalReflection, postExecDroneState>>
    /\ Logged(EndEvents("smartRetrieve", outcome))

\* lines 145-148: _getDroneStateSafe of the preparation is back; listTools goes out
PrepDroneStateReturn(outcome) ==
    /\ UNCHANGED <<executorVars, a2a, streamed, ragCall, streams, sessionStore>>
    /\ pc = "prepState"
    /\ Ended("getDroneState", outcome)
    /\ droneState' = DroneStateOf(outcome)
    /\ Dispatch([skill |-> "listTools"], "listTools")
    /\ UNCHANGED <<plannerCall, config, history, chats, response, ragHits, availableTools,
                   ragRetryCount, allToolCalls, reflections, iteration,
                   goalAchieved, currentPlan, lastExecutionResult,
                   finalReflection, postExecDroneState>>
    /\ Logged(EndEvents("getDroneState", outcome))

\* lines 148-161: _getAvailableToolsSafe is back; the loop is entered
ListToolsReturn(outcome) ==
    /\ UNCHANGED <<executorVars, a2a, streamed, ragCall, streams, sessionStore>>
    /\ pc = "listTools"
    /\ Ended("listTools", outcome)
    /\ availableTools' = IF Succeeded(outcome)
                         THEN outcome.result.output.tools ELSE <<>>
    /\ task' = NoTask
    /\ pc' = "while"
    /\ UNCHANGED <<plannerCall, config, history, chats, response, dispatched, ragHits,
                   droneState, ragRetryCount, allToolCalls, reflections,
                   iteration, goalAchieved, currentPlan, lastExecutionResult,
                   finalReflection, postExecDroneState>>
    /\ Logged(EndEvents("listTools", outcome))

\* a faulty variant of LoopCondition: <= for <
LoopConditionOffByOne == iteration <= config.maxReactIterations /\ ~goalAchieved
\* a faulty variant of LoopCondition: goalAchieved is not tested
LoopConditionIgnoringGoal == iteration < config.maxReactIterations
\* line 163: the loop's test
LoopCondition == iteration < config.maxReactIterations /\ ~goalAchieved

\* a faulty variant of IterationIncremented: the round is not counted
IterationNotIncremented == iteration
\* line 164: iteration++
IterationIncremented == iteration + 1

\* lines 163-172: the plan task goes out with the current ragHits, droneState
\* and availableTools, or the loop is left
While ==
    /\ UNCHANGED <<executorVars, a2a, streamed, ragCall, streams, sessionStore>>
    /\ pc = "while"
    /\ IF LoopCondition
       THEN /\ iteration' = IterationIncremented
            /\ Dispatch([skill |-> "plan", ragHits |-> ragHits,
                         droneState |-> droneState,
                         availableTools |-> availableTools], "plan")
       ELSE /\ pc' = "aggregate"
            /\ UNCHANGED <<iteration, task, dispatched>>
    /\ UNCHANGED <<plannerCall, config, history, chats, response, lastOutcome,
                   failedStages, ragHits,
                   droneState, availableTools, ragRetryCount, allToolCalls,
                   reflections, goalAchieved, currentPlan, lastExecutionResult,
                   finalReflection, postExecDroneState>>
    /\ Logged(<<>>)

\* a faulty variant of PlanFailureMessage: no fallback message
PlanFailureMessageAsIs(result) == result.error
\* the message chat throws for a failed plan: planResult.error || 'Planning failed'
PlanFailureMessage(result) ==
    IF result.error # "" THEN result.error ELSE "Planning failed"

\* a faulty variant of ShouldRetryRag: the retry limit is not tested
ShouldRetryRagUncapped(plan, retries) == Len(plan.missingLocations) > 0
\* phase 3's test for a retrieveMissing retry
ShouldRetryRag(plan, retries) ==
    Len(plan.missingLocations) > 0 /\ retries < maxRagRetries

\* a faulty variant of NeedsClarification: steps take precedence
NeedsClarificationWithoutSteps(plan) == plan.needsClarification /\ plan.steps = <<>>
\* line 185: phase 3's test, made before the steps are looked at
NeedsClarification(plan) == plan.needsClarification

\* lines 172-273: the plan task is back. A thrown dispatch or a failed result
\* goes to the catch block; a clarification starts a retrieveMissing retry or
\* returns; steps go to the Executor; no steps leave the loop
CallPlannerReturn(outcome) ==
    /\ UNCHANGED <<executorVars, a2a, streamed, ragCall, streams, sessionStore>>
    /\ pc = "plan"
    /\ Ended("plan", outcome)
    /\ UNCHANGED <<plannerCall, config, chats, ragHits, droneState, availableTools,
                   allToolCalls, reflections, iteration, lastExecutionResult,
                   finalReflection, postExecDroneState>>
    /\ IF outcome.kind = "thrown"
       THEN /\ Catch(outcome.error)
            /\ UNCHANGED <<currentPlan, ragRetryCount, goalAchieved>>
       ELSE IF ~outcome.result.success
       THEN /\ Catch(PlanFailureMessage(outcome.result))
            /\ UNCHANGED <<currentPlan, ragRetryCount, goalAchieved>>
       ELSE LET plan == outcome.result.output
            IN /\ currentPlan' = plan
               /\ IF NeedsClarification(plan)
                  THEN IF ShouldRetryRag(plan, ragRetryCount)
                       THEN /\ ragRetryCount' = ragRetryCount + 1
                            /\ Dispatch([skill |-> "retrieveMissing",
                                         missingTargets |-> plan.missingLocations],
                                        "retrieveMissing")
                            /\ UNCHANGED <<history, response, goalAchieved>>
                       ELSE /\ ReturnClarification(plan, ragRetryCount)
                            /\ UNCHANGED <<ragRetryCount, goalAchieved>>
                  ELSE IF plan.steps # <<>>
                  THEN /\ Dispatch([skill |-> "execute", steps |-> plan.steps,
                                    stopOnError |-> TRUE], "execute")
                       /\ UNCHANGED <<history, response, ragRetryCount, goalAchieved>>
                  ELSE /\ goalAchieved' = TRUE
                       /\ task' = NoTask
                       /\ pc' = "aggregate"
                       /\ UNCHANGED <<history, response, dispatched, ragRetryCount>>
    /\ Logged(EndEvents("plan", outcome))

\* a faulty variant of RetryFoundHits: the loop continues after any retry
RetryFoundHitsOrNot(hits, retryHits) == TRUE
\* phase 3's test after the retry: the loop continues when the retry returned hits
RetryFoundHits(hits, retryHits) == Len(retryHits) > 0

\* lines 203-253: retrieveMissing is back. Hits are merged and the loop
\* continues; no hits, or a thrown dispatch, return the clarification
CallRagMissingReturn(outcome) ==
    /\ UNCHANGED <<executorVars, a2a, streamed, ragCall, streams, sessionStore>>
    /\ pc = "retrieveMissing"
    /\ Ended("retrieveMissing", outcome)
    /\ UNCHANGED <<plannerCall, config, chats, droneState, availableTools, ragRetryCount,
                   allToolCalls, reflections, iteration, goalAchieved,
                   currentPlan, lastExecutionResult, finalReflection,
                   postExecDroneState>>
    /\ LET retryHits == HitsOf(outcome)
       IN IF outcome.kind = "returned" /\ RetryFoundHits(ragHits, retryHits)
          THEN /\ ragHits' = MergeHits(ragHits, retryHits)
               /\ task' = NoTask
               /\ pc' = "while"
               /\ UNCHANGED <<history, response, dispatched>>
          ELSE /\ ReturnClarification(currentPlan, ragRetryCount)
               /\ UNCHANGED ragHits
    /\ Logged(EndEvents("retrieveMissing", outcome))

\* a faulty variant of AfterExecution: the reflection is asked for without
\* the drone state being observed first
AfterExecutionUnobserved ==
    [task |-> [skill |-> "reflect", previousPlan |-> currentPlan,
               executionResult |-> lastExecutionResult',
               currentDroneState |-> postExecDroneState,
               ragHits |-> ragHits, availableTools |-> availableTools],
     at |-> "reflect"]
\* line 276: what chat awaits once the execution is back, the drone state
AfterExecution == [task |-> [skill |-> "getDroneState"], at |-> "observe"]

\* lines 261-276: the execute task is back; a thrown dispatch goes to the
\* catch block; the step results of a successful task are stashed;
\* getDroneState goes out
CallExecutorReturn(outcome) ==
    /\ UNCHANGED <<executorVars, a2a, streamed, ragCall, streams, sessionStore>>
    /\ pc = "execute"
    /\ Ended("execute", outcome)
    /\ UNCHANGED <<plannerCall, config, chats, ragHits, droneState, availableTools,
                   ragRetryCount, reflections, iteration, goalAchieved,
                   currentPlan, finalReflection, postExecDroneState>>
    /\ IF outcome.kind = "thrown"
       THEN /\ Catch(outcome.error)
            /\ UNCHANGED <<lastExecutionResult, allToolCalls>>
       ELSE /\ lastExecutionResult' = outcome.result
            /\ allToolCalls' = IF outcome.result.success
                               THEN allToolCalls \o outcome.result.output.results
                               ELSE allToolCalls
            /\ Dispatch(AfterExecution.task, AfterExecution.at)
            /\ UNCHANGED <<history, response>>
    /\ Logged(EndEvents("execute", outcome))

\* lines 276-292 and 323-326: the state after the execution is back; the
\* reflect task goes out, or with ReAct disabled the loop is left
ObserveReturn(outcome) ==
    /\ UNCHANGED <<executorVars, a2a, streamed, ragCall, streams, sessionStore>>
    /\ pc = "observe"
    /\ Ended("getDroneState", outcome)
    /\ postExecDroneState' = DroneStateOf(outcome)
    /\ UNCHANGED <<plannerCall, config, history, chats, response, ragHits, droneState,
                   availableTools, ragRetryCount, allToolCalls, reflections,
                   iteration, currentPlan, lastExecutionResult, finalReflection>>
    /\ IF config.reactEnabled
       THEN /\ Dispatch([skill |-> "reflect", previousPlan |-> currentPlan,
                         executionResult |-> lastExecutionResult,
                         currentDroneState |-> postExecDroneState',
                         ragHits |-> ragHits,
                         availableTools |-> availableTools], "reflect")
            /\ UNCHANGED goalAchieved
       ELSE /\ goalAchieved' = TRUE
            /\ task' = NoTask
            /\ pc' = "while"
            /\ UNCHANGED dispatched
    /\ Logged(EndEvents("getDroneState", outcome))

\* the verdict of lines 302-312 on a reflection: "stop" (achieved with enough
\* confidence), "continue" (remedial steps), "giveUp" (neither)
Verdict(reflection) ==
    IF reflection.goalAchieved /\ reflection.confidence >= minConfidenceToStop
    THEN "stop"
    ELSE IF Len(reflection.nextSteps) > 0 THEN "continue" ELSE "giveUp"

\* a faulty variant of DroneStateAfterReflection: the observed state is dropped
DroneStateKept(reflection) == droneState
\* line 306: the drone state the next plan sees
DroneStateAfterReflection(reflection) ==
    IF Verdict(reflection) = "continue" THEN postExecDroneState ELSE droneState

\* lines 294-322: the reflect task is back
CallReflectReturn(outcome) ==
    /\ UNCHANGED <<executorVars, a2a, streamed, ragCall, streams, sessionStore>>
    /\ pc = "reflect"
    /\ Ended("reflect", outcome)
    /\ task' = NoTask
    /\ pc' = "while"
    /\ UNCHANGED <<plannerCall, config, history, chats, response, dispatched, ragHits,
                   availableTools, ragRetryCount, allToolCalls, iteration,
                   currentPlan, lastExecutionResult, postExecDroneState>>
    /\ IF Succeeded(outcome)
       THEN LET reflection == outcome.result.output
            IN /\ finalReflection' = reflection
               /\ reflections' = Append(reflections,
                                        [iteration |-> iteration,
                                         reflection |-> reflection])
               /\ goalAchieved' = (Verdict(reflection) # "continue")
               /\ droneState' = DroneStateAfterReflection(reflection)
       ELSE /\ goalAchieved' = TRUE
            /\ UNCHANGED <<finalReflection, reflections, droneState>>
    /\ Logged(EndEvents("reflect", outcome))

\* lines 329-359: the answer, the assistant turn, _trimHistory, the response
Aggregate ==
    /\ UNCHANGED <<executorVars, a2a, streamed, ragCall, streams, sessionStore>>
    /\ pc = "aggregate"
    /\ LET answer == GenerateAnswerWithReflection(currentPlan, lastExecutionResult,
                                                  finalReflection, iteration)
       IN /\ history' = TrimHistory(Append(history, AssistantTurn(answer)))
          /\ response' =
               [sessionId |-> "s", requestId |-> chats, answer |-> answer,
                plan |-> IF currentPlan = NoPlan THEN <<>> ELSE currentPlan.steps,
                toolCalls |-> allToolCalls, ragHits |-> ragHits,
                executionSuccess |->
                    IF lastExecutionResult # NoResult /\ lastExecutionResult.success
                    THEN lastExecutionResult.output.allSuccess ELSE TRUE,
                goalAchieved |-> goalAchieved,
                reactIterations |-> iteration,
                reflections |->
                    [k \in DOMAIN reflections |->
                        [iteration |-> reflections[k].iteration,
                         goalAchieved |-> reflections[k].reflection.goalAchieved,
                         confidence |-> reflections[k].reflection.confidence]]]
    /\ pc' = "done"
    /\ UNCHANGED <<plannerCall, config, chats, task, dispatched, lastOutcome,
                   failedStages, locals>>
    /\ Logged(<<>>)

(* the tasks' outcomes *)
RagSmartOutcomes == Outcomes({ [hits |-> h] : h \in SmartHits })
RagMissingOutcomes == Outcomes({ [hits |-> h] : h \in MissingHits })
DroneStateOutcomes == Outcomes(DroneStates)
ListToolsOutcomes == Outcomes({ [tools |-> c] : c \in LoopCatalogs })
\* the plan handler fails when the model call fails, else returns PlanSkill
PlanOutcomes(t) ==
    IF t.skill # "plan" THEN {}
    ELSE { Thrown(e) : e \in ThrownErrors }
         \cup { Returned(TaskFailed(e)) : e \in HandlerErrors }
         \cup { Returned(PlanSkill(raw, t.availableTools)) : raw \in LoopRawPlans }
ReflectOutcomes(t) ==
    IF t.skill # "reflect" THEN {}
    ELSE { Thrown(e) : e \in ThrownErrors }
         \cup { Returned(TaskFailed("handler error")) }
         \cup { Returned(ReflectSkill(raw, t.availableTools)) :
                    raw \in LoopRawReflections }
ExecuteOutcomes(t) ==
    IF t.skill # "execute" THEN {}
    ELSE Outcomes({ Execute(t.steps, ok, t.stopOnError) :
                       ok \in [1..Len(t.steps) -> BOOLEAN] })

Next ==
    \/ Chat
    \/ \E o \in RagSmartOutcomes : CallRagSmartReturn(o)
    \/ \E o \in DroneStateOutcomes : PrepDroneStateReturn(o)
    \/ \E o \in ListToolsOutcomes : ListToolsReturn(o)
    \/ While
    \/ \E o \in PlanOutcomes(task) : CallPlannerReturn(o)
    \/ \E o \in RagMissingOutcomes : CallRagMissingReturn(o)
    \/ \E o \in ExecuteOutcomes(task) : CallExecutorReturn(o)
    \/ \E o \in DroneStateOutcomes : ObserveReturn(o)
    \/ \E o \in ReflectOutcomes(task) : CallReflectReturn(o)
    \/ Aggregate

Spec == Init /\ [][Next]_vars

\* the session with its first chat streamed
SpecEvents == EventsInit /\ [][Next]_vars

(* the session routes of the web server *)

\* clearSession (DELETE /api/sessions/:id): at any moment, between two steps
\* of a chat as well; the chat in progress keeps the object it took at line 108
ClearSession ==
    /\ sessionStore' = [attached |-> ClearedSession.attached, cleared |-> TRUE,
                        midChat |-> sessionStore.midChat \/ pc \notin {"idle", "done"}]
    /\ history' = ClearedSession.history
    /\ UNCHANGED <<config, chats, pc, task, dispatched, lastOutcome, failedStages,
                   locals, response, plannerCall, executorVars, a2a, loggerVars,
                   ragCall, streams>>

SessionsNext ==
    \/ Next
    \/ ClearSession

\* chat with the session cleared at any moment
SpecSessions == Init /\ [][SessionsNext]_vars

(* the deadlines of the tasks *)

\* the rejection of a fetch whose AbortSignal.timeout has fired
TimedOut == Thrown("The operation was aborted due to timeout")

\* a faulty variant of Deadline: no timeout is passed to submitTask
DeadlineUnset(skill) == 0
\* options.timeout of the task each _call* helper submits (ms)
Deadline(skill) ==
    CASE skill = "smartRetrieve" -> 45000
      [] skill = "retrieveMissing" -> 30000
      [] skill = "plan" -> 60000
      [] skill = "reflect" -> 60000
      [] skill = "getDroneState" -> 15000
      [] skill = "listTools" -> 15000
      [] skill = "execute" -> 120000
      [] OTHER -> 0

\* the deadline of the awaited task expires: submitTask sets the abort
\* signal only when options.timeout is given, and the await then ends with
\* the rejection
DeadlineExpires ==
    /\ task.skill # "none"
    /\ Deadline(task.skill) > 0
    /\ \/ CallRagSmartReturn(TimedOut)
       \/ PrepDroneStateReturn(TimedOut)
       \/ ListToolsReturn(TimedOut)
       \/ CallPlannerReturn(TimedOut)
       \/ CallRagMissingReturn(TimedOut)
       \/ CallExecutorReturn(TimedOut)
       \/ ObserveReturn(TimedOut)
       \/ CallReflectReturn(TimedOut)

\* chat under the scheduling the runtime gives: the synchronous stretches of
\* chat run on, and a deadline that is set expires if nothing ends the wait
\* before; no agent is bound to answer
SpecLive ==
    /\ Init
    /\ [][Next]_vars
    /\ WF_vars(While)
    /\ WF_vars(Aggregate)
    /\ WF_vars(DeadlineExpires)

(* ------------------------ PlannerAgent on its own ---------------------- *)

\* model outputs and catalogs the skills are applied to
RawPlans ==
    [reasoning : {"r"}, needsClarification : BOOLEAN,
     clarificationQuestion : {"", "q"},
     missingLocations : JsonArrays(RawLocations, MaxRawLocations),
     steps : JsonArrays(RawSteps, MaxRawSteps)]
RawConfidences ==
    { [isNumber |-> FALSE, value |-> 0] }
    \cup { [isNumber |-> TRUE, value |-> v] : v \in {-5, 0, 5, 8, 10, 15} }
RawReflections ==
    [goalAchieved : BOOLEAN, confidence : RawConfidences,
     nextSteps : JsonArrays(RawSteps, MaxRawSteps), summary : {"s"}]

PlannerInit ==
    /\ streamed = 0
    /\ config = OrchestratorConfig([ragEnabled |-> TRUE, reactEnabled |-> TRUE,
                                    maxHistoryLength |-> 0, maxReactIterations |-> 0])
    /\ InitOrchestrator
    /\ plannerCall = NoCall
    /\ InitExecutor({}, {})

\* the plan skill handler: plan(userRequest, ragHits, droneState, availableTools)
\* on a model output and the catalog of the task's input
PlannerPlan(raw, tools) ==
    /\ UNCHANGED <<executorVars, a2a, loggerVars, ragCall, streams, sessionStore>>
    /\ plannerCall = NoCall
    /\ plannerCall' = [skill |-> "plan", raw |-> raw, availableTools |-> tools,
                       result |-> PlanSkill(raw, tools)]
    /\ UNCHANGED <<config, history, chats, pc, task, dispatched, lastOutcome,
                   failedStages, locals, response>>

\* the reflect skill handler
PlannerReflect(raw, tools) ==
    /\ UNCHANGED <<executorVars, a2a, loggerVars, ragCall, streams, sessionStore>>
    /\ plannerCall = NoCall
    /\ plannerCall' = [skill |-> "reflect", raw |-> raw, availableTools |-> tools,
                       result |-> ReflectSkill(raw, tools)]
    /\ UNCHANGED <<config, history, chats, pc, task, dispatched, lastOutcome,
                   failedStages, locals, response>>

PlannerNext ==
    \/ /\ plannerCall = NoCall
       /\ \E raw \in RawPlans, tools \in ToolCatalogs : PlannerPlan(raw, tools)
    \/ /\ plannerCall = NoCall
       /\ \E raw \in RawReflections, tools \in ToolCatalogs : PlannerReflect(raw, tools)

SpecPlanner == PlannerInit /\ [][PlannerNext]_vars

(* -------------------- ExecutorAgent, step by step --------------------- *)

chatVars == <<config, history, chats, pc, task, dispatched, lastOutcome,
              failedStages, locals, response, plannerCall, sessionStore>>
orchestratorVars == <<chatVars, a2a, loggerVars, ragCall, streams>>

\* step.tool as the caller writes it ("" stands for every value that is no
\* non-empty string)
ExecToolNames == {"drone.take_off", "drone.run_mission", ""}
\* step.timeoutMs: a finite number, or anything else (absent, NaN, Infinity)
StepTimeouts ==
    { [finite |-> FALSE, value |-> 0] }
    \cup { [finite |-> TRUE, value |-> v] : v \in {0, 5000, 2000000} }
ExecSteps == [tool : ExecToolNames, timeoutMs : StepTimeouts]
\* catalogs of the endpoint, and of the cache: the mission tool is there, the
\* other two may be missing
ExecCatalogs ==
    { c \cup {"drone.run_mission"} : c \in SUBSET {"drone.take_off", "drone.get_state"} }
\* how the endpoint answers an invocation: a result, an error payload (a
\* result marked as an error), or the call throws (protocol error, timeout)
EndpointAnswers == {"result", "errorPayload", "throws"}

NoOptions == [hasTimeout |-> FALSE, timeout |-> 0, resetTimeoutOnProgress |-> FALSE]

\* _executeStep, lines 631-649: the requestOptions of a step
RequestOptions(step) ==
    LET own == step.timeoutMs.finite /\ step.timeoutMs.value > 0
        timeout == IF own THEN step.timeoutMs.value ELSE 0
    IN IF step.tool = "drone.run_mission"
       THEN [hasTimeout |-> TRUE,
             timeout |-> IF timeout > defaultMissionTimeoutMs
                         THEN timeout ELSE defaultMissionTimeoutMs,
             resetTimeoutOnProgress |-> TRUE]
       ELSE [hasTimeout |-> own, timeout |-> timeout,
             resetTimeoutOnProgress |-> FALSE]

\* McpClientWrapper.callTool(toolName, args = {}): the request it makes of
\* the SDK client, { name, arguments } and nothing else; a third argument is
\* not among its parameters
CallTool(toolName, requestOptions) == [name |-> toolName, options |-> NoOptions]

\* McpClientWrapper.hasTool: the tool is in the cached catalog
HasTool(tool, cache) == tool \in cache

\* McpClientWrapper._loadTools: the cache is replaced by the endpoint's
\* catalog; a listing that throws is logged and leaves the cache as it was
LoadTools(cache, endpoint, listed) == IF listed THEN endpoint ELSE cache
\* McpClientWrapper.refreshTools: the catalog is loaded again
RefreshTools(cache, endpoint, listed) == LoadTools(cache, endpoint, listed)

\* a faulty variant of AfterRefresh: the tool is called whatever the refresh found
AfterRefreshCallAnyway(tool, cache) == "call"
\* the second hasTool test, after the refresh: call, or throw unknown tool
AfterRefresh(tool, cache) == IF HasTool(tool, cache) THEN "call" ELSE "unknownTool"

\* a faulty variant of ContinuesAfterFailure: stopOnError is not tested
ContinuesAfterFailureAlways(stopOnError) == TRUE
\* execute, lines 590-593: the loop goes on after a failed step
ContinuesAfterFailure(stopOnError) == ~stopOnError

\* the tool of the running operation
CurrentTool ==
    IF execution.kind = "execute"
    THEN execution.steps[stepIndex].tool ELSE "drone.get_state"
CurrentOptions ==
    IF execution.kind = "execute"
    THEN RequestOptions(execution.steps[stepIndex]) ELSE NoOptions

\* execute(steps, options) is called: results = [], allSuccess = true, i = 0
ExecuteStart(steps, stopOnError) ==
    /\ execPc = "idle"
    /\ execution' = [kind |-> "execute", steps |-> steps, stopOnError |-> stopOnError]
    /\ stepIndex' = 1
    /\ stepResults' = <<>>
    /\ allSuccess' = TRUE
    /\ execPc' = "for"
    /\ UNCHANGED <<toolCache, endpointTools, refreshes, invocations, execReturn,
                   orchestratorVars, mcp>>

\* getDroneState() is called
GetDroneStateStart ==
    /\ execPc = "idle"
    /\ execution' = [kind |-> "getDroneState"]
    /\ refreshes' = 0
    /\ execPc' = "executeStep"
    /\ UNCHANGED <<stepIndex, stepResults, allSuccess, toolCache, endpointTools,
                   invocations, execReturn, orchestratorVars, mcp>>

\* the for statement of execute: the next step starts, or the loop is over
For ==
    /\ execPc = "for"
    /\ execPc' = IF stepIndex <= Len(execution.steps) THEN "executeStep" ELSE "return"
    /\ refreshes' = 0
    /\ UNCHANGED <<execution, stepIndex, stepResults, allSuccess, toolCache,
                   endpointTools, invocations, execReturn, orchestratorVars, mcp>>

\* callTool is entered: the request goes to the endpoint
Invoke ==
    /\ invocations' = Append(invocations,
                             [step |-> stepIndex,
                              request |-> CallTool(CurrentTool, CurrentOptions),
                              answer |-> "pending"])
    /\ execPc' = "callTool"
    /\ UNCHANGED <<stepIndex, stepResults, allSuccess, execReturn>>

\* _executeStep returned (execute, lines 541-562), or getDroneState returns
StepReturns(result) ==
    IF execution.kind = "execute"
    THEN /\ stepResults' = Append(stepResults,
                                  [step |-> stepIndex, tool |-> CurrentTool,
                                   success |-> TRUE, result |-> result])
         /\ stepIndex' = stepIndex + 1
         /\ execPc' = "for"
         /\ UNCHANGED <<allSuccess, execReturn>>
    ELSE /\ execReturn' = [kind |-> "returned", value |-> result]
         /\ execPc' = "returned"
         /\ UNCHANGED <<stepIndex, stepResults, allSuccess>>

\* _executeStep threw (execute, lines 563-594), or getDroneState throws
StepThrows(error) ==
    IF execution.kind = "execute"
    THEN /\ allSuccess' = FALSE
         /\ stepResults' = Append(stepResults,
                                  [step |-> stepIndex, tool |-> CurrentTool,
                                   success |-> FALSE, error |-> error])
         /\ IF ContinuesAfterFailure(execution.stopOnError)
            THEN stepIndex' = stepIndex + 1 /\ execPc' = "for"
            ELSE stepIndex' = stepIndex /\ execPc' = "return"
         /\ UNCHANGED execReturn
    ELSE /\ execReturn' = [kind |-> "thrown", error |-> error]
         /\ execPc' = "returned"
         /\ UNCHANGED <<stepIndex, stepResults, allSuccess>>

\* _executeStep, lines 614-628, and getDroneState, lines 489-500, up to the
\* refresh: an invalid tool throws, a cached tool is called, a missing one
\* has the catalog refreshed
CheckTool ==
    /\ execPc = "executeStep"
    /\ UNCHANGED <<execution, toolCache, endpointTools, orchestratorVars, mcp>>
    /\ IF CurrentTool = ""
       THEN /\ StepThrows("Invalid step.tool")
            /\ UNCHANGED <<refreshes, invocations>>
       ELSE IF HasTool(CurrentTool, toolCache)
       THEN Invoke /\ UNCHANGED refreshes
       ELSE /\ refreshes' = refreshes + 1
            /\ execPc' = "refreshTools"
            /\ UNCHANGED <<stepIndex, stepResults, allSuccess, invocations, execReturn>>

\* refreshTools is back: the cache holds the endpoint's catalog; the tool is
\* called if it is there now, else the unknown-tool error is thrown
RefreshToolsReturn(listed) ==
    /\ execPc = "refreshTools"
    /\ toolCache' = RefreshTools(toolCache, endpointTools, listed)
    /\ UNCHANGED <<execution, endpointTools, refreshes, orchestratorVars, mcp>>
    /\ IF AfterRefresh(CurrentTool, toolCache') = "call"
       THEN Invoke
       ELSE /\ StepThrows("unknown tool")
            /\ UNCHANGED invocations

\* callTool is back with the endpoint's answer: it returns whatever content
\* the result carries, or rethrows what the SDK client threw
CallToolReturn(answer) ==
    /\ execPc = "callTool"
    /\ invocations' = [invocations EXCEPT ![Len(invocations)].answer = answer]
    /\ UNCHANGED <<execution, toolCache, endpointTools, refreshes, orchestratorVars, mcp>>
    /\ IF answer = "throws"
       THEN StepThrows("tool call failed")
       ELSE StepReturns(answer)

\* execute returns, lines 600-607
ExecuteReturn ==
    /\ execPc = "return"
    /\ execReturn' =
         [kind |-> "returned",
          value |-> [results |-> stepResults,
                     allSuccess |-> allSuccess,
                     completedSteps |->
                        Cardinality({k \in DOMAIN stepResults : stepResults[k].success}),
                     totalSteps |-> Len(execution.steps)]]
    /\ execPc' = "returned"
    /\ UNCHANGED <<execution, stepIndex, stepResults, allSuccess, toolCache,
                   endpointTools, refreshes, invocations, orchestratorVars, mcp>>

ExecutorInit ==
    /\ streamed = 0
    /\ config = OrchestratorConfig([ragEnabled |-> TRUE, reactEnabled |-> TRUE,
                                    maxHistoryLength |-> 0, maxReactIterations |-> 0])
    /\ InitOrchestrator
    /\ plannerCall = NoCall
    /\ \E cache \in ExecCatalogs, endpoint \in ExecCatalogs :
          InitExecutor(cache, endpoint)

ExecutorNext ==
    \/ /\ execPc = "idle"
       /\ \E steps \in SeqUpTo(ExecSteps, MaxExecSteps), stopOnError \in BOOLEAN :
             ExecuteStart(steps, stopOnError)
    \/ GetDroneStateStart
    \/ For
    \/ CheckTool
    \/ \E listed \in BOOLEAN : RefreshToolsReturn(listed)
    \/ \E answer \in EndpointAnswers : CallToolReturn(answer)
    \/ ExecuteReturn

SpecExecutor == ExecutorInit /\ [][ExecutorNext]_vars

(* ------------- ExecutorAgent.initialize and the connection ------------- *)

otherThanMcp == <<execPc, execution, stepIndex, stepResults, allSuccess,
                  toolCache, endpointTools, refreshes, invocations, execReturn,
                  orchestratorVars>>

\* the request moves on
At(r, where) == [mcp.req EXCEPT ![r].pc = where]

\* main of the Executor's server: initialize is awaited before the server
\* listens; a connection that fails is logged and left to the first request
Startup(ok) ==
    /\ mcp.phase = "starting"
    /\ mcp' = [mcp EXCEPT !.phase = "listening",
                          !.spawned = 1,
                          !.client = 1,
                          !.connected = ok,
                          !.initialized = ok,
                          !.established = IF ok THEN {1} ELSE {}]
    /\ UNCHANGED otherThanMcp

\* a skill request arrives: each of execute, listTools and getDroneState
\* begins with await this.initialize()
Arrive(r) ==
    /\ mcp.phase = "listening"
    /\ mcp.req[r].pc = "idle"
    /\ mcp' = [mcp EXCEPT !.req = At(r, "initialize")]
    /\ UNCHANGED otherThanMcp

\* initialize and, inside it, connect, up to the first await that waits
\* for the endpoint: initialize returns when initialized; connect returns
\* when connected (and initialize sets initialized); else a transport and a
\* client are made and this.client's connect is awaited, which launches the
\* child process
Initialize(r) ==
    /\ mcp.phase = "listening"
    /\ mcp.req[r].pc = "initialize"
    /\ IF mcp.initialized
       THEN mcp' = [mcp EXCEPT !.req = At(r, "run")]
       ELSE IF mcp.connected
       THEN mcp' = [mcp EXCEPT !.initialized = TRUE, !.req = At(r, "run")]
       ELSE /\ mcp.spawned < MaxSpawned
            /\ mcp' = [mcp EXCEPT !.spawned = @ + 1,
                                  !.client = mcp.spawned + 1,
                                  !.req = [mcp.req EXCEPT
                                             ![r] = [pc |-> "connecting",
                                                     client |-> mcp.spawned + 1]]]
    /\ UNCHANGED otherThanMcp

\* client.connect is back: connected is set and the tools are loaded, or the
\* error is thrown to the skill's caller
ClientConnectReturns(r, ok) ==
    /\ mcp.phase = "listening"
    /\ mcp.req[r].pc = "connecting"
    /\ mcp' = IF ok
              THEN [mcp EXCEPT !.connected = TRUE,
                               !.established = @ \cup {mcp.req[r].client},
                               !.req = At(r, "loadTools")]
              ELSE [mcp EXCEPT !.req = At(r, "failed")]
    /\ UNCHANGED otherThanMcp

\* _loadTools is back, connect returns, initialize sets initialized
LoadToolsReturns(r) ==
    /\ mcp.phase = "listening"
    /\ mcp.req[r].pc = "loadTools"
    /\ mcp' = [mcp EXCEPT !.initialized = TRUE, !.req = At(r, "run")]
    /\ UNCHANGED otherThanMcp

\* the skill has run, or its task has failed: the request is over
Finish(r) ==
    /\ mcp.phase = "listening"
    /\ mcp.req[r].pc \in {"run", "failed"}
    /\ mcp' = [mcp EXCEPT !.req = [mcp.req EXCEPT ![r] = [pc |-> "idle", client |-> 0]]]
    /\ UNCHANGED otherThanMcp

\* shutdown: disconnect closes this.client when connected
Shutdown ==
    /\ mcp.phase = "listening"
    /\ mcp' = [mcp EXCEPT !.phase = "exited",
                          !.established = IF mcp.connected THEN @ \ {mcp.client} ELSE @,
                          !.connected = FALSE,
                          !.client = 0,
                          !.initialized = FALSE]
    /\ UNCHANGED otherThanMcp

ConnectInit ==
    /\ config = OrchestratorConfig([ragEnabled |-> TRUE, reactEnabled |-> TRUE,
                                    maxHistoryLength |-> 0, maxReactIterations |-> 0])
    /\ InitOrchestrator
    /\ plannerCall = NoCall
    /\ InitExecutor({}, {})
    /\ streamed = 0

ConnectNext ==
    \/ \E ok \in BOOLEAN : Startup(ok)
    \/ \E r \in ExecRequests : Arrive(r)
    \/ \E r \in ExecRequests : Initialize(r)
    \/ \E r \in ExecRequests, ok \in BOOLEAN : ClientConnectReturns(r, ok)
    \/ \E r \in ExecRequests : LoadToolsReturns(r)
    \/ \E r \in ExecRequests : Finish(r)
    \/ Shutdown

SpecConnect == ConnectInit /\ [][ConnectNext]_vars

(* ------------------------------ RagAgent ------------------------------ *)

\* a filter the caller did not give (undefined), and the default it then takes
NotGiven == -1
OrDefault(v, d) == IF v = NotGiven THEN d ELSE v

\* the documents of the store, by chunk_text, and similarities in tenths
Docs == {"a", "b"}
Scores == {5, 7}
RagHits == [chunkText : Docs, score : Scores]

\* match_documents: rows with similarity >= match_threshold, nearest first, at
\* most greatest(match_count, 1) of them
MatchDocuments(count, threshold) ==
    { h \in SeqUpTo(RagHits, Cardinality(Docs)) :
        /\ Len(h) <= (IF count > 1 THEN count ELSE 1)
        /\ \A i \in DOMAIN h : h[i].score >= threshold
        /\ \A i, j \in DOMAIN h : i < j => /\ h[i].score >= h[j].score
                                           /\ h[i].chunkText # h[j].chunkText }

\* what a search (gemini.embed, supabase.search) does: it throws or returns rows
SearchAnswers(count, threshold) ==
    { [failed |-> TRUE, hits |-> <<>>] }
    \cup { [failed |-> FALSE, hits |-> h] : h \in MatchDocuments(count, threshold) }

\* _searchSingleTarget: a failed search counts as no hits
SearchSingleTarget(answer) == IF answer.failed THEN <<>> ELSE answer.hits

\* _deduplicateResults: a Map keyed by chunkText, in insertion order; a later
\* result replaces the entry when its score is higher
RECURSIVE DeduplicateInto(_, _)
DeduplicateInto(seen, results) ==
    IF results = <<>> THEN seen
    ELSE LET r == Head(results)
             at == { i \in DOMAIN seen : seen[i].chunkText = r.chunkText }
         IN IF at = {}
            THEN DeduplicateInto(Append(seen, r), Tail(results))
            ELSE LET i == CHOOSE k \in at : TRUE
                 IN DeduplicateInto(IF seen[i].score < r.score
                                    THEN [seen EXCEPT ![i] = r] ELSE seen,
                                    Tail(results))
DeduplicateResults(results) == DeduplicateInto(<<>>, results)

\* Array.prototype.sort((a, b) => b.score - a.score): descending and stable
RECURSIVE InsertByScore(_, _)
InsertByScore(sorted, r) ==
    IF sorted = <<>> THEN <<r>>
    ELSE IF Head(sorted).score >= r.score
         THEN <<Head(sorted)>> \o InsertByScore(Tail(sorted), r)
         ELSE <<r>> \o sorted
RECURSIVE SortByScore(_)
SortByScore(results) ==
    IF results = <<>> THEN <<>>
    ELSE InsertByScore(SortByScore(SubSeq(results, 1, Len(results) - 1)),
                       results[Len(results)])

\* _postProcess: filter by threshold, sort by score descending, slice(0, topK)
PostProcess(results, topK, threshold) ==
    LET AtLeastThreshold(r) == r.score >= threshold
        sorted == SortByScore(SelectSeq(results, AtLeastThreshold))
    IN SubSeq(sorted, 1, IF topK < Len(sorted) THEN topK ELSE Len(sorted))

\* retrieve: one search for topK + 3 rows, post-processed
Retrieve(rawResults, filters) ==
    [hits |-> PostProcess(rawResults, OrDefault(filters.topK, 5),
                          OrDefault(filters.threshold, 5)),
     totalFound |-> Len(rawResults)]

\* parseQueryIntent: the targets of the model output, [] when the output has
\* no array of them or the model call fails
ParseQueryIntent(raw) == IF raw.isArray THEN raw.items ELSE <<>>

\* the hits of the searches, one after another
RECURSIVE AllResults(_)
AllResults(answers) ==
    IF answers = <<>> THEN <<>>
    ELSE SearchSingleTarget(Head(answers)) \o AllResults(Tail(answers))

\* the topK smartRetrieve hands to _postProcess
SmartTopK(topK, targets) == topK + Len(targets)

\* smartRetrieve: a search per target of the intent, one for the query itself
\* (answers holds theirs in this order), merged, deduplicated, post-processed
SmartRetrieve(targets, answers, filters) ==
    LET topK == OrDefault(filters.topK, 5)
        threshold == OrDefault(filters.threshold, 5)
        uniqueResults == DeduplicateResults(AllResults(answers))
    IN [hits |-> PostProcess(uniqueResults, SmartTopK(topK, targets), threshold),
        totalFound |-> Len(uniqueResults)]

\* the pieces target names are made of; digits are \d, the landing words are
\* those _generateSearchVariations looks for
DigitTokens == {"3"}
LandingTokens == {"heibai", "zhuolu", "qijiang", "landing"}

\* target.match(/(\d+)/): the first run of digits
RECURSIVE DigitsPrefix(_)
DigitsPrefix(s) ==
    IF s # <<>> /\ Head(s) \in DigitTokens
    THEN <<Head(s)>> \o DigitsPrefix(Tail(s)) ELSE <<>>
RECURSIVE FirstNumber(_)
FirstNumber(s) ==
    IF s = <<>> THEN <<>>
    ELSE IF Head(s) \in DigitTokens THEN DigitsPrefix(s) ELSE FirstNumber(Tail(s))

\* [...new Set(variations)]: first occurrences, in order
RECURSIVE Unique(_)
Unique(s) ==
    IF s = <<>> THEN <<>>
    ELSE LET front == Unique(SubSeq(s, 1, Len(s) - 1))
             last == s[Len(s)]
         IN IF \E i \in DOMAIN front : front[i] = last THEN front
            ELSE Append(front, last)

\* _generateSearchVariations
GenerateSearchVariations(target) ==
    LET num == FirstNumber(target)
        numbered == IF num = <<>> THEN <<>>
                    ELSE << num \o <<"hao">>, num \o <<"hao", "dianwei">>,
                            <<"bianhao">> \o num, <<"ID ">> \o num,
                            <<"biaojidian">> \o num >>
        landing == IF \E i \in DOMAIN target : target[i] \in LandingTokens
                   THEN << <<"heibaise shizi zhuolubiao">>, <<"qijiang", "dian">>,
                           <<"landing", "_pad">>, <<"shizi yuanxing biaoji">> >>
                   ELSE <<>>
    IN Unique(<<target>> \o numbered \o landing)

\* the test of the variation loop: hits replace bestHits when they are more,
\* or when their first hit scores higher than the first of bestHits
Better(hits, bestHits) ==
    \/ Len(hits) > Len(bestHits)
    \/ /\ Len(hits) > 0
       /\ hits[1].score > (IF bestHits # <<>> THEN bestHits[1].score ELSE 0)

\* the variation loop over the hits of the variations tried
RECURSIVE BestHitsFrom(_, _)
BestHitsFrom(bestHits, tried) ==
    IF tried = <<>> THEN bestHits
    ELSE BestHitsFrom(IF Better(Head(tried), bestHits) THEN Head(tried) ELSE bestHits,
                      Tail(tried))

\* the hits of the searches a target's variations get: answers holds the
\* answers of all searches of the call in the order they are made
Tried(target, answers) ==
    [v \in 1..Len(GenerateSearchVariations(target)) |-> SearchSingleTarget(answers[v])]

\* the loop over missingTargets: targetResults, in the order of the targets
RECURSIVE TargetResults(_, _)
TargetResults(missingTargets, answers) ==
    IF missingTargets = <<>> THEN <<>>
    ELSE LET target == Head(missingTargets)
             n == Len(GenerateSearchVariations(target))
         IN <<BestHitsFrom(<<>>, Tried(target, answers))>>
            \o TargetResults(Tail(missingTargets),
                             SubSeq(answers, n + 1, Len(answers)))

RECURSIVE Concat(_)
Concat(seqs) == IF seqs = <<>> THEN <<>> ELSE Head(seqs) \o Concat(Tail(seqs))

\* retrieveMissing
RetrieveMissing(missingTargets, answers, filters) ==
    LET topK == OrDefault(filters.topK, 3)
        threshold == OrDefault(filters.threshold, 4)
        targetResults == TargetResults(missingTargets, answers)
        uniqueResults == DeduplicateResults(Concat(targetResults))
    IN [hits |-> PostProcess(uniqueResults, topK * Len(missingTargets), threshold),
        totalFound |-> Len(uniqueResults),
        targetResults |-> targetResults]

\* the number of searches retrieveMissing makes
RECURSIVE SearchCount(_)
SearchCount(missingTargets) ==
    IF missingTargets = <<>> THEN 0
    ELSE Len(GenerateSearchVariations(Head(missingTargets)))
         + SearchCount(Tail(missingTargets))

(* RagAgent on its own *)

\* names the intent decomposition and the Planner come up with
TargetNames == { <<"x">>, <<"3", "hao">>, <<"heibai", "dian">> }
\* model outputs of parseQueryIntent
RawIntents == JsonArrays({ <<"x">> }, MaxTargets)
\* lists of missing targets: one name, or two names of one variation each
MissingTargetLists ==
    { <<t>> : t \in TargetNames } \cup { << <<"x">>, <<"y">> >> }
\* filters of the calls
SmartFilters == [topK : {NotGiven, 1}, threshold : {NotGiven}]
MissingFilters == [topK : {NotGiven}, threshold : {NotGiven}]

RagInit ==
    /\ streamed = 0
    /\ config = OrchestratorConfig([ragEnabled |-> TRUE, reactEnabled |-> TRUE,
                                    maxHistoryLength |-> 0, maxReactIterations |-> 0])
    /\ InitOrchestrator
    /\ plannerCall = NoCall
    /\ InitExecutor({}, {})

\* the retrieve skill handler; retrieve rethrows what the search throws
RagRetrieve(filters, answer) ==
    /\ ragCall.skill = "none"
    /\ ragCall' = [skill |-> "retrieve", filters |-> filters, answers |-> <<answer>>,
                   result |-> IF answer.failed THEN [thrown |-> TRUE]
                              ELSE Retrieve(answer.hits, filters)]
    /\ UNCHANGED <<chatVars, a2a, loggerVars, executorVars, streams>>

\* the smartRetrieve skill handler
RagSmartRetrieve(raw, filters, answers) ==
    /\ ragCall.skill = "none"
    /\ ragCall' = [skill |-> "smartRetrieve", targets |-> ParseQueryIntent(raw),
                   filters |-> filters, answers |-> answers,
                   result |-> SmartRetrieve(ParseQueryIntent(raw), answers, filters)]
    /\ UNCHANGED <<chatVars, a2a, loggerVars, executorVars, streams>>

\* the retrieveMissing skill handler
RagRetrieveMissing(missingTargets, filters, answers) ==
    /\ ragCall.skill = "none"
    /\ ragCall' = [skill |-> "retrieveMissing", missingTargets |-> missingTargets,
                   filters |-> filters, answers |-> answers,
                   result |-> RetrieveMissing(missingTargets, answers, filters)]
    /\ UNCHANGED <<chatVars, a2a, loggerVars, executorVars, streams>>

RagNext ==
    \/ /\ ragCall.skill = "none"
       /\ \E filters \in SmartFilters :
            \E answer \in SearchAnswers(OrDefault(filters.topK, 5) + 3,
                                        OrDefault(filters.threshold, 5)) :
                RagRetrieve(filters, answer)
    \/ /\ ragCall.skill = "none"
       /\ \E raw \in RawIntents, filters \in SmartFilters :
            LET threshold == OrDefault(filters.threshold, 5)
                n == Len(ParseQueryIntent(raw))
            IN \E forTargets \in [1..n -> SearchAnswers(3 + 2, threshold)],
                  forQuery \in SearchAnswers(OrDefault(filters.topK, 5) + 2, threshold) :
                    RagSmartRetrieve(raw, filters, Append(forTargets, forQuery))
    \/ /\ ragCall.skill = "none"
       /\ \E missingTargets \in MissingTargetLists, filters \in MissingFilters :
            \E answers \in [1..SearchCount(missingTargets) ->
                               SearchAnswers(3 + 2, OrDefault(filters.threshold, 4))] :
                RagRetrieveMissing(missingTargets, filters, answers)

SpecRag == RagInit /\ [][RagNext]_vars

(* ----------------- AgentClient.submitTask and AgentServer ---------------- *)

\* names given to submitTask; the registry of the client holds the first two
AgentNames == {"planner", "executor", "nobody"}
AgentRegistry == {"planner", "executor"}
\* the skills registered at each agent's server
SkillHandlers(agent) ==
    IF agent = "planner" THEN {"plan", "reflect"}
    ELSE IF agent = "executor" THEN {"execute", "listTools", "getDroneState"}
    ELSE {}
\* the skills tasks are submitted with
TaskSkills == {"plan", "execute", "fly"}
\* options.timeout: 0 stands for an absent one
TaskTimeouts == {0, 60000}
\* what a skill handler does when it is called
HandlerBehaviours == {"returns", "throws"}

NoHttpResponse == [status |-> 0]

\* AgentServer._handleTask: an unregistered skill throws before any handler
\* is called; what a handler throws becomes a failed Task Result
HandleTask(agent, skill, handler) ==
    IF skill \notin SkillHandlers(agent) THEN Thrown("Unknown skill")
    ELSE IF handler = "throws" THEN Returned(TaskFailed("handler error"))
    ELSE Returned(TaskOk("output"))

\* the POST /tasks route: the result of _handleTask is sent with status 200,
\* what it throws is sent as a failed Task Result with status 500
PostTasks(agent, skill, handler) ==
    LET handled == HandleTask(agent, skill, handler)
    IN IF handled.kind = "thrown"
       THEN [status |-> 500, body |-> TaskFailed(handled.error)]
       ELSE [status |-> 200, body |-> handled.result]

\* submitTask once fetch has resolved: a response that is not OK throws, the
\* body of an OK response is returned as it is
AfterFetch(resp) ==
    IF resp.status < 200 \/ resp.status > 299
    THEN Thrown("Task submission failed")
    ELSE Returned(resp.body)

\* submitTask(agentNameOrUrl, skill, input, options) is called: an agent name
\* the registry lacks throws, else the task is posted
SubmitTask(agent, skill, timeout) ==
    /\ a2a.pc = "idle"
    /\ a2a.submitted < MaxSubmitted
    /\ a2a' = IF agent \notin AgentRegistry
              THEN [pc |-> "settled", submitted |-> a2a.submitted + 1, agent |-> agent, skill |-> skill,
                    timeout |-> timeout, handlerInvoked |-> FALSE,
                    response |-> NoHttpResponse, outcome |-> Thrown("Unknown agent")]
              ELSE [pc |-> "fetch", submitted |-> a2a.submitted + 1, agent |-> agent, skill |-> skill,
                    timeout |-> timeout, handlerInvoked |-> FALSE,
                    response |-> NoHttpResponse]
    /\ UNCHANGED <<chatVars, loggerVars, executorVars, ragCall, streams>>

\* the server takes the task and answers
ServerAnswers(handler) ==
    /\ a2a.pc = "fetch"
    /\ a2a.response = NoHttpResponse
    /\ a2a' = [a2a EXCEPT !.response = PostTasks(a2a.agent, a2a.skill, handler),
                          !.handlerInvoked = a2a.skill \in SkillHandlers(a2a.agent)]
    /\ UNCHANGED <<chatVars, loggerVars, executorVars, ragCall, streams>>

\* fetch rejects: the connection fails, or the deadline of
\* AbortSignal.timeout(options.timeout) expires (when a timeout was given),
\* before the response has come
FetchRejects(error) ==
    /\ a2a.pc = "fetch"
    /\ error = "The operation was aborted due to timeout" => a2a.timeout > 0
    /\ a2a' = [pc |-> "settled", submitted |-> a2a.submitted, agent |-> a2a.agent, skill |-> a2a.skill,
               timeout |-> a2a.timeout, handlerInvoked |-> a2a.handlerInvoked,
               response |-> a2a.response, outcome |-> Thrown(error)]
    /\ UNCHANGED <<chatVars, loggerVars, executorVars, ragCall, streams>>

\* fetch resolves with the server's response
FetchResolves ==
    /\ a2a.pc = "fetch"
    /\ a2a.response # NoHttpResponse
    /\ a2a' = [pc |-> "settled", submitted |-> a2a.submitted, agent |-> a2a.agent, skill |-> a2a.skill,
               timeout |-> a2a.timeout, handlerInvoked |-> a2a.handlerInvoked,
               response |-> a2a.response, outcome |-> AfterFetch(a2a.response)]
    /\ UNCHANGED <<chatVars, loggerVars, executorVars, ragCall, streams>>

\* the caller has its answer: the client is free for the next task
SubmitTaskEnds ==
    /\ a2a.pc = "settled"
    /\ a2a' = [pc |-> "idle", submitted |-> a2a.submitted]
    /\ UNCHANGED <<chatVars, loggerVars, executorVars, ragCall, streams>>

A2AInit ==
    /\ streamed = 0
    /\ config = OrchestratorConfig([ragEnabled |-> TRUE, reactEnabled |-> TRUE,
                                    maxHistoryLength |-> 0, maxReactIterations |-> 0])
    /\ InitOrchestrator
    /\ plannerCall = NoCall
    /\ InitExecutor({}, {})

A2ANext ==
    \/ \E agent \in AgentNames, skill \in TaskSkills, timeout \in TaskTimeouts :
          SubmitTask(agent, skill, timeout)
    \/ \E handler \in HandlerBehaviours : ServerAnswers(handler)
    \/ \E error \in ThrownErrors : FetchRejects(error)
    \/ FetchResolves
    \/ SubmitTaskEnds

SpecA2A == A2AInit /\ [][A2ANext]_vars

(* ------------- the execute task on the request path, timed ------------- *)

\* the steps of a plan as they reach the Executor: the Planner's steps carry
\* tool, args and description, no timeoutMs
TimedSteps ==
    { q \in SeqUpTo([tool : {"drone.run_mission", "drone.take_off"},
                     timeoutMs : {[finite |-> FALSE, value |-> 0]}],
                    MaxTimedSteps) : q # <<>> }

\* the time a request may take before the SDK client gives it up
TimeoutOf(options) == IF options.hasTimeout THEN options.timeout ELSE sdkDefaultTimeoutMs
\* the timeout _executeStep means the step to have
OwnTimeout(step) == TimeoutOf(RequestOptions(step))
\* the timeout the invocation made for the step has
EffectiveTimeout(step) == TimeoutOf(CallTool(step.tool, RequestOptions(step)).options)

\* how long the endpoint takes over a tool, in ms: any time within the step's
\* own timeout
Durations(step) == { d \in {30000, 50000, 90000, 300000} : d < OwnTimeout(step) }

\* _callExecutorWithProgress: the execute task is submitted with the deadline
\* of the skill and stopOnError = true, and awaited
SubmitExecute(steps) ==
    /\ a2a = NoSubmission
    /\ a2a' = [pc |-> "awaiting", submitted |-> 1, skill |-> "execute",
               timeout |-> Deadline("execute"), steps |-> steps, stopOnError |-> TRUE,
               stepIndex |-> 1, elapsed |-> 0, results |-> <<>>, cut |-> "none"]
    /\ UNCHANGED <<chatVars, loggerVars, executorVars, ragCall, streams>>

\* the Executor runs the next step while the fetch is pending: the endpoint
\* takes took ms. The abort signal of the fetch fires when the deadline is
\* reached first; the invocation throws when its timeout is; else the step
\* has its result
StepTakes(took) ==
    /\ a2a.pc = "awaiting"
    /\ a2a.stepIndex <= Len(a2a.steps)
    /\ LET step == a2a.steps[a2a.stepIndex]
           limit == EffectiveTimeout(step)
           waited == IF took < limit THEN took ELSE limit
       IN /\ took \in Durations(step)
          /\ IF a2a.timeout > 0 /\ a2a.elapsed + waited >= a2a.timeout
             THEN a2a' = [a2a EXCEPT !.pc = "aborted", !.elapsed = a2a.timeout,
                                     !.cut = "task deadline"]
             ELSE IF took >= limit
             THEN a2a' = [a2a EXCEPT
                            !.elapsed = @ + waited,
                            !.results = Append(@, [tool |-> step.tool, success |-> FALSE]),
                            !.cut = "tool timeout",
                            !.stepIndex = IF ContinuesAfterFailure(a2a.stopOnError)
                                          THEN @ + 1 ELSE Len(a2a.steps) + 1]
             ELSE a2a' = [a2a EXCEPT
                            !.elapsed = @ + waited,
                            !.results = Append(@, [tool |-> step.tool, success |-> TRUE]),
                            !.stepIndex = @ + 1]
    /\ UNCHANGED <<chatVars, loggerVars, executorVars, ragCall, streams>>

\* execute has returned and the fetch resolves with the Task Result
ExecuteResolves ==
    /\ a2a.pc = "awaiting"
    /\ a2a.stepIndex > Len(a2a.steps)
    /\ a2a' = [a2a EXCEPT !.pc = "resolved"]
    /\ UNCHANGED <<chatVars, loggerVars, executorVars, ragCall, streams>>

TimedNext ==
    \/ \E steps \in TimedSteps : SubmitExecute(steps)
    \/ /\ a2a.pc = "awaiting"
       /\ \E took \in {30000, 50000, 90000, 300000} : StepTakes(took)
    \/ ExecuteResolves

SpecTimed == A2AInit /\ [][TimedNext]_vars

\* ---------------------------------------------------------------------------
\* The stream route of the web server.  A step of a handler is what runs
\* between two awaits: Node runs it without interleaving.
\* ---------------------------------------------------------------------------

\* A handler without the requestId filter (faulty variant).
ForwardsWhateverRequest(stream, event) == TRUE

\* eventHandler, the filter: an event of another request is not forwarded
\* once the handler has captured its requestId.
Forwards(stream, event) ==
    ~(stream.capturedRequestId # NoRequestId
        /\ event.requestId # stream.capturedRequestId)

\* eventHandler: filter, capture the requestId of the first request:start,
\* sendEvent('agent_event', ...).
EventHandler(stream, event) ==
    IF ~Forwards(stream, event)
    THEN stream
    ELSE [stream EXCEPT
            !.capturedRequestId =
                IF event.type = "request:start" /\ @ = NoRequestId
                THEN event.requestId ELSE @,
            !.forwarded = Append(@, event)]

\* StreamLogger.log: emit('*', event) calls every subscribed handler.
Emit(ss, event) ==
    [r \in Requests |->
        IF ss[r].subscribed THEN EventHandler(ss[r], event) ELSE ss[r]]

\* POST /api/chat/stream up to the first await of orchestrator.chat:
\* streamLogger.on('*', eventHandler), then chat's requestStart.
PostChatStream(r) ==
    /\ r \in Streaming
    /\ streams[r].pc = "idle"
    /\ streams' = Emit([streams EXCEPT ![r].subscribed = TRUE, ![r].pc = "chat"],
                       [type |-> "request:start", requestId |-> r])
    /\ UNCHANGED <<chatVars, a2a, loggerVars, executorVars, ragCall>>

\* POST /api/chat up to the first await of orchestrator.chat: no subscription.
PostChat(r) ==
    /\ r \notin Streaming
    /\ streams[r].pc = "idle"
    /\ streams' = Emit([streams EXCEPT ![r].pc = "chat"],
                       [type |-> "request:start", requestId |-> r])
    /\ UNCHANGED <<chatVars, a2a, loggerVars, executorVars, ragCall>>

\* orchestrator.chat logs an event of its request between two awaits.
ChatLogs(r) ==
    /\ streams[r].pc = "chat"
    /\ streams[r].logged < MaxLogged
    /\ \E type \in {"agent:call:start", "agent:call:end"} :
        streams' = Emit([streams EXCEPT ![r].logged = @ + 1],
                        [type |-> type, requestId |-> r])
    /\ UNCHANGED <<chatVars, a2a, loggerVars, executorVars, ragCall>>

\* orchestrator.chat returns: requestEnd; the route's await has not resumed.
ChatReturns(r) ==
    /\ streams[r].pc = "chat"
    /\ streams' = Emit([streams EXCEPT ![r].pc = "returned"],
                       [type |-> "request:end", requestId |-> r])
    /\ UNCHANGED <<chatVars, a2a, loggerVars, executorVars, ragCall>>

\* The route resumes: the result is sent and, in the stream route's finally,
\* streamLogger.off('*', eventHandler) and res.end().
RouteEnds(r) ==
    /\ streams[r].pc = "returned"
    /\ streams' = [streams EXCEPT ![r].pc = "closed", ![r].subscribed = FALSE]
    /\ UNCHANGED <<chatVars, a2a, loggerVars, executorVars, ragCall>>

StreamNext ==
    \E r \in Requests :
        \/ PostChatStream(r)
        \/ PostChat(r)
        \/ ChatLogs(r)
        \/ ChatReturns(r)
        \/ RouteEnds(r)

SpecStream == A2AInit /\ [][StreamNext]_vars

(* ------------------------------ properties ----------------------------- *)

\* the response of a finished request has this field
Reports(field) == pc = "done" /\ field \in DOMAIN response

\* C1: within one request the iteration counter never exceeds
\* maxReactIterations, and the reactIterations a response reports is at
\* most maxReactIterations
C1_IterationsBounded ==
    /\ iteration <= config.maxReactIterations
    /\ dispatched["plan"] <= config.maxReactIterations
    /\ Reports("reactIterations") =>
          response.reactIterations <= config.maxReactIterations

\* a request that used every iteration the default allows
C1_Witness ==
    /\ Reports("reactIterations")
    /\ config.maxReactIterations = maxIterations
    /\ response.reactIterations = maxIterations
    /\ dispatched["plan"] = maxIterations

\* C2: within one request ragRetryCount never exceeds 2: at most two
\* retrieveMissing tasks go out, and a response reports ragRetries <= 2
C2_RagRetriesBounded ==
    /\ ragRetryCount <= 2
    /\ dispatched["retrieveMissing"] <= 2
    /\ Reports("ragRetries") => response.ragRetries <= 2

\* a request whose second retry found nothing: plans one and two asked for
\* clarification, and the third iteration was still open
C2_Witness ==
    /\ Reports("ragRetries")
    /\ response.ragRetries = 2
    /\ dispatched["retrieveMissing"] = 2
    /\ iteration < config.maxReactIterations

\* the names occurring in the availableTools list of the Planner's call
CatalogNames == { plannerCall.availableTools[i].name :
                    i \in DOMAIN plannerCall.availableTools }

\* C3: every step of the plan PlannerAgent.plan returns, and every step of
\* the nextSteps PlannerAgent.reflect returns, names a tool of the
\* availableTools list passed to that call, whatever the model wrote
C3_ToolsFromCatalog ==
    (plannerCall # NoCall /\ plannerCall.result.success) =>
        LET output == plannerCall.result.output
            steps == IF plannerCall.skill = "plan"
                     THEN output.steps ELSE output.nextSteps
        IN \A k \in DOMAIN steps : steps[k].tool \in CatalogNames

\* the model wrote one step for a catalog tool and one for a tool outside the
\* catalog, and the result keeps a step
C3_Witness ==
    /\ plannerCall # NoCall
    /\ plannerCall.result.success
    /\ plannerCall.raw.steps.isArray
    /\ \E k \in DOMAIN plannerCall.raw.steps.items :
          plannerCall.raw.steps.items[k].tool \notin CatalogNames
    /\ plannerCall.skill = "plan"
    /\ plannerCall.result.output.steps # <<>>

\* C4: after any sequence of chat calls on a session, each ending normally,
\* in a clarification or in an error, the history holds at most
\* 2 x maxHistoryLength entries
C4_HistoryBounded ==
    pc \in {"idle", "done"} => Len(history) <= 2 * config.maxHistoryLength

\* the reflect task of this iteration succeeded and the loop's test is next
AfterReflection ==
    pc = "while" /\ lastOutcome.skill = "reflect" /\ lastOutcome.kind = "ok"

PlanTaskFails ==
    /\ pc = "plan"
    /\ lastOutcome'.skill = "plan"
    /\ lastOutcome'.kind \in {"thrown", "failed"}

\* C6: when a plan task fails, chat does not throw and dispatches no further
\* task: it returns a response with sessionId, requestId, a failure answer
\* and a non-empty error string, and the answer is appended to the history
\* as the assistant turn
C6_PlanFailure ==
    [][ PlanTaskFails =>
          /\ pc' = "done"
          /\ task' = NoTask
          /\ dispatched' = dispatched
          /\ {"sessionId", "requestId", "answer", "error"} \subseteq DOMAIN response'
          /\ response'.answer.kind = "error"
          /\ response'.error # ""
          /\ history' = Append(history, [role |-> "assistant",
                                         content |-> response'.answer.kind])
      ]_vars

\* a request ended by a failed plan result that carried no error message
C6_Witness ==
    /\ pc = "done"
    /\ lastOutcome.skill = "plan"
    /\ lastOutcome.kind = "failed"
    /\ response.error = "Planning failed"
    /\ history[Len(history)].role = "assistant"

\* C7: a failure of smartRetrieve, getDroneState or listTools in the
\* preparation never ends the request: no request ends without a plan task,
\* and the first plan task carries ragHits=[], droneState=null,
\* availableTools=[] for the stages that failed
C7_PreparationBestEffort ==
    /\ pc = "done" => dispatched["plan"] >= 1
    /\ (pc = "plan" /\ iteration = 1) =>
          /\ "smartRetrieve" \in failedStages => task.ragHits = <<>>
          /\ "prepState" \in failedStages => task.droneState = Null
          /\ "listTools" \in failedStages => task.availableTools = <<>>

\* the first plan task is awaited after all three preparation stages failed
C7_Witness ==
    /\ pc = "plan"
    /\ iteration = 1
    /\ failedStages = {"smartRetrieve", "prepState", "listTools"}
    /\ task.skill = "plan"

\* the retrieveMissing retry awaited returns, and returns zero hits
RetryFindsNothing ==
    /\ pc = "retrieveMissing"
    /\ lastOutcome'.skill = "retrieveMissing"
    /\ lastOutcome'.kind = "ok"
    /\ lastOutcome'.hits = 0

\* C8, as the code has it: when a plan sets needsClarification=true with
\* non-empty missingLocations and the retrieveMissing retry returns zero
\* hits, no further retry and no further plan follow: the request ends at
\* once with the clarification response, which reports the retries made so
\* far and the current iteration, hence ragRetries=1 and reactIterations=1
\* when the first plan's first retry finds nothing
C8_EmptyRetryEndsRequest ==
    [][ RetryFindsNothing =>
          /\ pc' = "done"
          /\ dispatched' = dispatched
          /\ "needsClarification" \in DOMAIN response'
          /\ response'.ragRetries = dispatched["retrieveMissing"]
          /\ response'.reactIterations = dispatched["plan"]
          /\ (dispatched["plan"] = 1 /\ dispatched["retrieveMissing"] = 1) =>
                (response'.ragRetries = 1 /\ response'.reactIterations = 1)
      ]_vars

\* a request ended by its first retry, which found nothing
C8_Witness ==
    /\ Reports("needsClarification")
    /\ lastOutcome = [skill |-> "retrieveMissing", kind |-> "ok", hits |-> 0]
    /\ dispatched["plan"] = 1
    /\ dispatched["retrieveMissing"] = 1
    /\ response.ragRetries = 1
    /\ response.reactIterations = 1
    /\ response.missingLocations # <<>>

\* C8 as stated: when every plan asks for clarification with missing
\* locations and every retry returns zero hits, the clarification response
\* reports ragRetries=2 and reactIterations >= 2 (a second retry was made)
C8_SecondRetryAfterEmptyRetry ==
    ( /\ Reports("needsClarification")
      /\ dispatched["execute"] = 0
      /\ lastOutcome = [skill |-> "retrieveMissing", kind |-> "ok", hits |-> 0] )
    => ( /\ dispatched["retrieveMissing"] = 2
         /\ response.ragRetries = 2
         /\ response.reactIterations >= 2 )

\* the retrieveMissing retry awaited ends and leaves the accumulated RAG
\* list as it was: it returned no hits, or only chunkTexts already there
RetryAddsNoHit ==
    /\ pc = "retrieveMissing"
    /\ lastOutcome'.skill = "retrieveMissing"
    /\ ragHits' = ragHits

\* C9: a retrieveMissing retry that adds no new hit to the accumulated RAG
\* list does not lead to another plan attempt: the request ends with the
\* clarification response
C9_NoNewHitEndsRequest ==
    [][ RetryAddsNoHit =>
          /\ pc' = "done"
          /\ dispatched' = dispatched
          /\ "needsClarification" \in DOMAIN response'
      ]_vars

\* a request has ended on the aggregation path; ReAct was enabled, no task
\* and no step failed, every plan had steps and asked no clarification, and
\* every iteration's reflection reported goalAchieved=false
EndedWithoutGoalAchieved ==
    /\ Reports("goalAchieved")
    /\ config.reactEnabled
    /\ failedStages = {}
    /\ dispatched["retrieveMissing"] = 0
    /\ dispatched["execute"] = dispatched["plan"]
    /\ Len(reflections) = dispatched["plan"]
    /\ response.executionSuccess
    /\ \A k \in DOMAIN reflections : ~reflections[k].reflection.goalAchieved

\* C10: if no reflection of a request ever reports goalAchieved=true (every
\* plan has steps and asks no clarification, every task succeeds), the loop
\* runs exactly maxReactIterations iterations and the response carries
\* goalAchieved=false
C10_BudgetExhaustion ==
    EndedWithoutGoalAchieved =>
        /\ response.reactIterations = config.maxReactIterations
        /\ response.goalAchieved = FALSE

\* C11: when the tool catalog passed to the plan skill is empty, plan
\* returns a plan with needsClarification=true and no steps (so that the
\* request ends as a clarification and not as an error)
C11_EmptyCatalogClarifies ==
    (plannerCall.skill = "plan" /\ plannerCall.availableTools = <<>>) =>
        /\ plannerCall.result.success
        /\ plannerCall.result.output.needsClarification
        /\ plannerCall.result.output.steps = <<>>

\* the parts of the answer of the response
AnswerParts == { response.answer.text[k] : k \in DOMAIN response.answer.text }

\* the last plan of the request came back with needsClarification=false and
\* zero steps, and the loop has been left for it
LeftOnZeroSteps ==
    /\ lastOutcome.skill = "plan"
    /\ lastOutcome.kind = "ok"
    /\ pc = "aggregate" \/ Reports("goalAchieved")

ReflectFailed ==
    lastOutcome.skill = "reflect" /\ lastOutcome.kind \in {"failed", "thrown"}

\* q is the tail of s
IsSuffix(q, s) ==
    Len(q) <= Len(s) /\ SubSeq(s, Len(s) - Len(q) + 1, Len(s)) = q

C14_SerialExecution ==
    execution.kind = "execute" =>
        /\ \A k \in DOMAIN stepResults :
              /\ stepResults[k].step = k
              /\ stepResults[k].tool = execution.steps[k].tool
        /\ \A a, b \in DOMAIN invocations :
              a < b => /\ invocations[a].step < invocations[b].step
                       /\ invocations[a].answer # "pending"
        /\ execPc \in {"executeStep", "refreshTools", "callTool"} =>
              /\ Len(stepResults) = stepIndex - 1
              /\ \A a \in DOMAIN invocations :
                    invocations[a].step = stepIndex => execPc = "callTool"
        /\ execution.stopOnError =>
              \A k \in DOMAIN stepResults :
                  ~stepResults[k].success =>
                      /\ k = Len(stepResults)
                      /\ \A a \in DOMAIN invocations : invocations[a].step <= k
        /\ (execPc = "returned" /\ ~execution.stopOnError) =>
              Len(stepResults) = Len(execution.steps)
        /\ (execPc = "returned" /\ allSuccess) =>
              Len(stepResults) = Len(execution.steps)

\* execute has returned after its first step failed at the endpoint, with
\* stopOnError=true and a second, valid step left unrun
C14_Witness ==
    /\ execPc = "returned"
    /\ execution.kind = "execute"
    /\ execution.stopOnError
    /\ Len(execution.steps) = 2
    /\ HasTool(execution.steps[2].tool, toolCache)
    /\ Len(stepResults) = 1
    /\ Len(invocations) = 1
    /\ invocations[1].answer = "throws"

\* a refresh has been attempted for the running step (or getDroneState) and
\* its outcome is awaited
Refreshing == execPc = "refreshTools"
\* the running step names a tool (a valid name) the cached catalog lacks
CacheMiss ==
    /\ execPc = "executeStep"
    /\ CurrentTool # ""
    /\ ~HasTool(CurrentTool, toolCache)

\* C15: for an execute step, or for getDroneState, whose tool is absent from
\* the cached catalog, exactly one catalog refresh is attempted; if the tool
\* is present afterwards it is invoked, otherwise the operation fails with
\* the unknown-tool error and the endpoint is not invoked for it
C15_RefreshOnce ==
    [][ /\ refreshes' <= 1
        /\ CacheMiss =>
              /\ Refreshing'
              /\ refreshes' = 1
              /\ invocations' = invocations
        /\ refreshes' > refreshes => CacheMiss
        /\ Refreshing =>
              /\ ~Refreshing'
              /\ refreshes' = 1
              /\ IF HasTool(CurrentTool, toolCache')
                 THEN /\ execPc' = "callTool"
                      /\ invocations' =
                           Append(invocations,
                                  [step |-> stepIndex,
                                   request |-> CallTool(CurrentTool, CurrentOptions),
                                   answer |-> "pending"])
                 ELSE /\ invocations' = invocations
                      /\ IF execution.kind = "execute"
                         THEN /\ Len(stepResults') = Len(stepResults) + 1
                              /\ ~stepResults'[stepIndex].success
                              /\ stepResults'[stepIndex].error = "unknown tool"
                              /\ ~allSuccess'
                         ELSE execReturn' = [kind |-> "thrown", error |-> "unknown tool"]
      ]_vars

\* a step whose tool neither the cache nor the refreshed catalog holds has
\* failed with the unknown-tool error, the endpoint never invoked
C15_Witness ==
    /\ execution.kind = "execute"
    /\ Len(stepResults) = 1
    /\ ~stepResults[1].success
    /\ stepResults[1].error = "unknown tool"
    /\ stepResults[1].tool = "drone.take_off"
    /\ "drone.take_off" \notin endpointTools
    /\ invocations = <<>>

\* C16: when the endpoint answers a step's invocation with an error payload
\* (the call does not throw), execute records the step with success=false,
\* sets allSuccess=false, and with stopOnError=true abandons the rest
C16_ErrorPayloadFailsStep ==
    execution.kind = "execute" =>
        \A j \in DOMAIN invocations :
            invocations[j].answer = "errorPayload" =>
                /\ ~stepResults[invocations[j].step].success
                /\ ~allSuccess
                /\ execution.stopOnError =>
                      Len(stepResults) = invocations[j].step

\* C17: a drone.run_mission step is invoked with a timeout of at least the
\* mission ceiling and with reset-on-progress; the invocation of any other
\* tool carries a timeout only when step.timeoutMs is a positive finite number
C17_InvocationTimeouts ==
    execution.kind = "execute" =>
        \A j \in DOMAIN invocations :
            LET step == execution.steps[invocations[j].step]
                options == invocations[j].request.options
            IN IF step.tool = "drone.run_mission"
               THEN /\ options.hasTimeout
                    /\ options.timeout >= defaultMissionTimeoutMs
                    /\ options.timeout >= (IF step.timeoutMs.finite
                                           THEN step.timeoutMs.value ELSE 0)
                    /\ options.resetTimeoutOnProgress
               ELSE options.hasTimeout <=>
                        (step.timeoutMs.finite /\ step.timeoutMs.value > 0)

\* the submitTask call has ended after something went wrong on its way
A2AFailure ==
    \/ a2a.outcome.kind = "thrown"
    \/ a2a.response = NoHttpResponse
    \/ a2a.response.status # 200
    \/ ~a2a.response.body.success

\* C18: submitTask to a registered agent never throws: a network failure, a
\* deadline expiry, a non-OK response, a handler exception or an
\* unregistered skill each yield a returned Task Result with success=false
\* and a string error, which names the unknown skill in the last case, no
\* handler having been invoked
C18_SubmitTaskNeverThrows ==
    (a2a.pc = "settled" /\ a2a.agent \in AgentRegistry) =>
        /\ a2a.outcome.kind = "returned"
        /\ A2AFailure =>
              /\ ~a2a.outcome.result.success
              /\ a2a.outcome.result.error \in STRING
        /\ (a2a.response # NoHttpResponse /\ a2a.skill \notin SkillHandlers(a2a.agent)) =>
              /\ a2a.outcome.result.error = "Unknown skill"
              /\ ~a2a.handlerInvoked

\* C19: every chat request eventually returns a response, even when an
\* agent never answers: every task the Orchestrator awaits carries a finite
\* deadline whose expiry ends the wait
C19_ChatReturns ==
    /\ [](task.skill # "none" => Deadline(task.skill) > 0)
    /\ (pc \notin {"idle", "done"}) ~> (pc = "done")

\* a chat has returned although the last task it awaited never came back (the
\* await ended by a rejection)
C19_Witness ==
    /\ pc = "done"
    /\ chats >= 1
    /\ lastOutcome.kind = "thrown"
    /\ lastOutcome.skill = "reflect"

\* how many of the events are of this type
Count(type, log) == Len(SelectSeq(log, LAMBDA e : e = type))

\* C20: on every path of a request (normal, clarification, error)
\* REQUEST_START is the first event emitted and REQUEST_END the last, each
\* emitted exactly once, and every subscriber receives the request's events
\* in the order in which they were emitted
C20_RequestEventsInOrder ==
    (chats = streamed) =>
        /\ events # <<>>
        /\ events[1] = "request:start"
        /\ Count("request:start", events) = 1
        /\ IF pc = "done"
           THEN /\ events[Len(events)] = "request:end"
                /\ Count("request:end", events) = 1
           ELSE Count("request:end", events) = 0
        /\ \A s \in Subscribers :
              delivered[s] = SelectSeq(events, LAMBDA e : Listens(s, e))

\* a streamed chat has returned on the error path, REQUEST_END closing its events
C20_Witness ==
    /\ chats = streamed
    /\ pc = "done"
    /\ "error" \in DOMAIN response
    /\ Len(events) > 4
    /\ events[Len(events)] = "request:end"

\* the AGENT_CALL_START events among the first n events that no
\* AGENT_CALL_END or AGENT_CALL_ERROR has followed (the calls of a request
\* are made one after another, so a closing event belongs to the last start)
OpenCalls(n) ==
    LET prefix == SubSeq(events, 1, n)
    IN Count("agent:call:start", prefix)
       - Count("agent:call:end", prefix) - Count("agent:call:error", prefix)

\* C21: every AGENT_CALL_START of a request is followed, before the
\* request's REQUEST_END, by an AGENT_CALL_END or AGENT_CALL_ERROR of the same
\* call, also when the task returns success=false or the dispatch throws
C21_CallsClosed ==
    (chats = streamed) =>
        /\ \A n \in 0..Len(events) : OpenCalls(n) \in {0, 1}
        /\ pc = "done" => OpenCalls(Len(events)) = 0

\* a task is submitted in this step
Dispatches == dispatched' # dispatched
\* the skill of the task that ended last in this request ("none" before the
\* first), as of the end of this step
Previous == lastOutcome'.skill

\* the order of the stages, a stage that is disabled or has nothing to do
\* being skipped
InStageOrder ==
    \/ Previous = "none" /\ pc' \in {"smartRetrieve", "prepState"}
    \/ Previous = "smartRetrieve" /\ pc' = "prepState"
    \/ Previous = "getDroneState" /\ pc = "prepState" /\ pc' = "listTools"
    \/ Previous = "listTools" /\ pc' = "plan"
    \/ Previous = "plan" /\ pc' = "execute"
    \/ Previous = "execute" /\ pc' = "observe"
    \/ Previous = "getDroneState" /\ pc = "observe" /\ pc' = "reflect"
    \/ Previous = "reflect" /\ pc' = "plan"

\* the supplementary retrieval: it follows a plan and is followed by the
\* plan of the next iteration
InRetryOrder ==
    \/ Previous = "plan" /\ pc' = "retrieveMissing"
    \/ Previous = "retrieveMissing" /\ pc' = "plan"

\* a task is submitted only when none is outstanding, or in the step in
\* which the outstanding one ends
OneOutstanding ==
    /\ Dispatches =>
          /\ task' # [skill |-> "none"]
          /\ task = [skill |-> "none"] \/ (pc' # pc /\ Previous = task.skill)
    /\ (task # [skill |-> "none"] /\ lastOutcome' = lastOutcome /\ pc' = pc) =>
          task' = task

C23_OneConnection == Cardinality(mcp.established) <= 1


\* C24: after clearSession, getSessionHistory returns an empty history until
\* a later chat on the session starts, also when a chat that began before the
\* clear completes after it
C24_ClearedStaysEmpty == sessionStore.cleared => GetSessionHistory = <<>>
\* a chat that began before the clear has completed after it and pushed its
\* answer
C24_Witness ==
    /\ sessionStore.cleared
    /\ sessionStore.midChat
    /\ pc = "done"
    /\ response # NoResponse
    /\ Len(history) >= 2

\* C25: every reflection PlannerAgent.reflect returns with goalAchieved = true
\* has nextSteps = [], whatever nextSteps the model produced
C25_AchievedHasNoNextSteps ==
    (/\ plannerCall.skill = "reflect"
     /\ plannerCall.result.success
     /\ plannerCall.result.output.goalAchieved)
    => plannerCall.result.output.nextSteps = <<>>
\* the model declared the goal achieved and wrote a step that validation
\* would have kept
C25_Witness ==
    /\ plannerCall.skill = "reflect"
    /\ plannerCall.raw.goalAchieved
    /\ plannerCall.raw.nextSteps.isArray
    /\ ValidateSteps(plannerCall.raw.nextSteps.items,
                     AllowedToolNames(plannerCall.availableTools)) # <<>>
    /\ plannerCall.result.output.nextSteps = <<>>

\* C26: every reflection PlannerAgent.reflect returns, and so every reflection
\* listed in a chat response, has 0 <= confidence <= 1 (0..10 in tenths): a
\* numeric model value is clamped into the range, a missing or non-numeric one
\* is replaced by 0.2
C26_ConfidenceInRange ==
    /\ (plannerCall.skill = "reflect" /\ plannerCall.result.success) =>
          LET given == plannerCall.raw.confidence
              c == plannerCall.result.output.confidence
          IN /\ c \in 0..10
             /\ given.isNumber /\ given.value \in 0..10 => c = given.value
             /\ given.isNumber /\ given.value < 0 => c = 0
             /\ given.isNumber /\ given.value > 10 => c = 10
             /\ ~given.isNumber => c = 2
    /\ \A k \in DOMAIN reflections : reflections[k].reflection.confidence \in 0..10
    /\ response # NoResponse /\ "reflections" \in DOMAIN response =>
          \A k \in DOMAIN response.reflections :
              response.reflections[k].confidence \in 0..10
\* a confidence above 1 has been clamped
C26_Witness ==
    /\ plannerCall.skill = "reflect"
    /\ plannerCall.raw.confidence.isNumber
    /\ plannerCall.raw.confidence.value > 10
    /\ plannerCall.result.output.confidence = 10

\* C27: plan validation returns exactly those steps of the model output whose
\* tool is in the allowed set and whose args is an object, in their original
\* order; a step whose args is missing or is no object is dropped
C27_StepsWithObjectArgsOnly ==
    (plannerCall.skill = "plan" /\ plannerCall.result.success) =>
        LET allowed == AllowedToolNames(plannerCall.availableTools)
            items == IF plannerCall.raw.steps.isArray
                     THEN plannerCall.raw.steps.items ELSE <<>>
            Retained(step) == step.tool \in allowed /\ step.args = "object"
            expected == SelectSeq(items, Retained)
            steps == plannerCall.result.output.steps
        IN /\ Len(steps) = Len(expected)
           /\ \A k \in DOMAIN steps :
                 /\ steps[k].tool = expected[k].tool
                 /\ steps[k].args = "object"

\* C28: the missingLocations of a validated plan contain only non-empty,
\* trimmed strings: non-string entries, empty strings and whitespace-only
\* strings of the model output are all excluded
C28_LocationsNonEmptyTrimmed ==
    (plannerCall.skill = "plan" /\ plannerCall.result.success) =>
        LET locs == plannerCall.result.output.missingLocations
        IN \A k \in DOMAIN locs : locs[k] # <<>> /\ Trim(locs[k]) = locs[k]

\* C29: smartRetrieve post-processes its merged, deduplicated hits as retrieve
\* does: the returned hits all have score >= threshold, are sorted by score
\* descending, and number at most topK, however many targets the intent
\* decomposition produced
C29_SmartHitsWithinTopK ==
    ragCall.skill = "smartRetrieve" =>
        LET hits == ragCall.result.hits
            topK == OrDefault(ragCall.filters.topK, 5)
            threshold == OrDefault(ragCall.filters.threshold, 5)
        IN /\ \A i \in DOMAIN hits : hits[i].score >= threshold
           /\ \A i, j \in DOMAIN hits : i < j => hits[i].score >= hits[j].score
           /\ Len(hits) <= topK

\* C30: for each missing target, retrieveMissing keeps the hits of the search
\* variation whose top hit has the highest score among all variations tried
\* for that target
C30_BestTopHitKept ==
    ragCall.skill = "retrieveMissing" =>
        LET target == ragCall.missingTargets[1]
            tried == Tried(target, ragCall.answers)
            kept == ragCall.result.targetResults[1]
        IN \A v \in DOMAIN tried :
              tried[v] # <<>> =>
                  /\ kept # <<>>
                  /\ kept[1].score >= tried[v][1].score
                  /\ \E w \in DOMAIN tried : kept = tried[w]

\* C31: after a successful reflection the request completes only if the
\* reflection's confidence is >= 0.8; a reflection with confidence < 0.8,
\* whatever its goalAchieved, leads to another Plan round as long as
\* iterations remain
C31_LowConfidenceReplans ==
    [][(/\ pc = "reflect"
        /\ Len(reflections') = Len(reflections) + 1
        /\ finalReflection'.confidence < minConfidenceToStop
        /\ iteration < config.maxReactIterations)
       => (pc' = "while" /\ LoopCondition')]_vars

\* C32: no execute task is ever dispatched with the steps of a plan that has
\* needsClarification = true; such a plan leads only to a retrieveMissing
\* retry followed by a fresh plan, or to the end of the request
C32_NoExecuteOfUnclearPlan ==
    /\ task.skill = "execute" =>
          /\ currentPlan # NoPlan
          /\ ~currentPlan.needsClarification
          /\ task.steps = currentPlan.steps
    /\ (currentPlan # NoPlan /\ currentPlan.needsClarification) =>
          pc \in {"retrieveMissing", "while", "plan", "aggregate", "done"}
\* a plan that asks for clarification and carries steps has come back, and
\* the retry for its missing locations is under way
C32_Witness ==
    /\ pc = "retrieveMissing"
    /\ currentPlan.needsClarification
    /\ currentPlan.steps # <<>>

\* C33: whenever the last plan produced in a request has needsClarification =
\* true, the response is the clarification response; a request never ends on
\* the result-aggregation path with an unanswered clarification, including
\* when the iteration budget runs out right after a RAG retry that found hits
C33_ClarificationAnswered ==
    (/\ pc = "done"
     /\ response # NoResponse
     /\ "error" \notin DOMAIN response
     /\ currentPlan # NoPlan
     /\ currentPlan.needsClarification)
    => /\ "needsClarification" \in DOMAIN response
       /\ response.needsClarification

\* C34: with ReAct enabled, a response carries goalAchieved = true only if the
\* last plan had zero steps or the last reflection of the request reported
\* goalAchieved = true with confidence >= 0.8
C34_GoalAchievedIsReflected ==
    (/\ pc = "done"
     /\ config.reactEnabled
     /\ response # NoResponse
     /\ "goalAchieved" \in DOMAIN response
     /\ response.goalAchieved)
    => \/ currentPlan # NoPlan /\ currentPlan.steps = <<>>
       \/ /\ reflections # <<>>
          /\ reflections[Len(reflections)].reflection.goalAchieved
          /\ reflections[Len(reflections)].reflection.confidence >= minConfidenceToStop

\* C35: a response carries executionSuccess = true only if no execute task
\* was dispatched in the request or the last execute task returned success =
\* true with allSuccess = true; an execute task that itself failed is never
\* reported as executionSuccess = true
C35_ExecutionSuccessIsEarned ==
    (/\ pc = "done"
     /\ response # NoResponse
     /\ "executionSuccess" \in DOMAIN response
     /\ response.executionSuccess)
    => \/ dispatched["execute"] = 0
       \/ /\ lastExecutionResult # NoResult
          /\ lastExecutionResult.success
          /\ lastExecutionResult.output.allSuccess

\* C36: a plan execution that is still within its own tool timeouts (such as
\* a drone.run_mission running below the mission ceiling) is not cut short by
\* an earlier deadline elsewhere on the request path: the Orchestrator waits
\* for the execute task's result and the response reports the executed steps
C36_NotCutShort ==
    ("cut" \in DOMAIN a2a /\ a2a.pc \in {"resolved", "aborted"}) =>
        /\ a2a.pc = "resolved"
        /\ a2a.cut = "none"
        /\ Len(a2a.results) = Len(a2a.steps)

\* C37: every chat call appends exactly one user turn and exactly one
\* assistant turn to its session's history on every path (normal,
\* clarification, error), so for chats that run one after another on a session
\* the history always alternates user, assistant and starts with a user
\* turn, also after eviction
C37_TurnsAlternate ==
    /\ \A k \in DOMAIN history :
          history[k].role = (IF k % 2 = 1 THEN "user" ELSE "assistant")
    /\ Len(history) % 2 = (IF pc \in {"idle", "done"} THEN 0 ELSE 1)
\* the second chat has ended on the normal path and the first exchange has
\* been evicted
C37_Witness ==
    /\ pc = "done"
    /\ chats = 2
    /\ config.maxHistoryLength = 1
    /\ "reactIterations" \in DOMAIN response
    /\ "needsClarification" \notin DOMAIN response
    /\ Len(history) = 2

\* C38: with several stream requests in flight on the shared publisher, a
\* connection forwards as agent_event only events of its own chat request.
C38_OnlyOwnEvents ==
    \A r \in Streaming :
        \A k \in DOMAIN streams[r].forwarded :
            streams[r].forwarded[k].requestId = r

\* Both stream requests have run side by side to their end, each handler was
\* subscribed while the other request and the plain chat published, and each
\* connection forwarded its own start, logged events and end.
C38_Witness ==
    /\ \A r \in Streaming :
        /\ streams[r].pc = "returned"
        /\ streams[r].logged = MaxLogged
        /\ Len(streams[r].forwarded) = MaxLogged + 2
    /\ streams[3].pc = "closed"
    /\ streams[3].logged = MaxLogged

\* C39: a response that carries reactIterations reports the number of plan
\* tasks dispatched in the request; every retrieveMissing retry, so every
\* retry that triggers a re-plan, and every execute task falls in an
\* iteration of its own, so together they never exceed maxReactIterations.
C39_IterationsAccountForDispatches ==
    /\ Reports("reactIterations") => response.reactIterations = dispatched["plan"]
    /\ iteration = dispatched["plan"]
    /\ dispatched["execute"] + dispatched["retrieveMissing"] <= iteration
    /\ iteration <= config.maxReactIterations

\* a request that ended on the aggregation path after three iterations: two
\* retries that each led to a re-plan, then one execute task
C39_Witness ==
    /\ Reports("reactIterations")
    /\ "needsClarification" \notin DOMAIN response
    /\ response.reactIterations = maxIterations
    /\ dispatched["plan"] = maxIterations
    /\ dispatched["retrieveMissing"] = 2
    /\ dispatched["execute"] = 1

====
